---- MODULE Spec2Model ----
(***************************************************************************)
(* A model of the unifiedllm provider adapters (OpenAI, Anthropic, Gemini) *)
(* with their shared base contract and the HTTP transport.                 *)
(*                                                                         *)
(* Conventions.  An optional Python value is a sequence of length <= 1:    *)
(* None is <<>> and a present value x is <<x>>.  A Python dict is a TLA+   *)
(* function whose DOMAIN is the set of keys.  A role string is a sequence  *)
(* of one-character strings, so that strip() and lower() are computed.     *)
(* A JSON value is a tagged record [t |-> tag, v |-> payload].             *)
(***************************************************************************)
EXTENDS Integers, Sequences, FiniteSets, TLC

\* ------------------------------------------------------------------ bounds
MaxMsgs == 2

\* ------------------------------------------------------- optional values
None == <<>>
Some(x) == <<x>>
IsNone(o) == o = <<>>
Val(o) == o[1]

\* Python truthiness of an optional string: None and "" are falsy.
Truthy(o) == o # None /\ Val(o) # ""

\* dict.update(e) on a dict d
DictUpdate(d, e) ==
    [k \in (DOMAIN d) \cup (DOMAIN e) |-> IF k \in DOMAIN e THEN e[k] ELSE d[k]]

EmptyDict == [k \in {} |-> 0]

\* --------------------------------------------------------- role strings
Lower(c) ==
    CASE c = "U" -> "u"
      [] c = "M" -> "m"
      [] c = "B" -> "b"
      [] c = "S" -> "s"
      [] c = "O" -> "o"
      [] c = "A" -> "a"
      [] c = "I" -> "i"
      [] OTHER -> c

IsSpace(c) == c \in {" ", "\t", "\n"}

RECURSIVE LStrip(_)
LStrip(s) ==
    IF s = <<>> THEN s
    ELSE IF IsSpace(Head(s)) THEN LStrip(Tail(s)) ELSE s

RECURSIVE RStrip(_)
RStrip(s) ==
    IF s = <<>> THEN s
    ELSE IF IsSpace(s[Len(s)]) THEN RStrip(SubSeq(s, 1, Len(s) - 1)) ELSE s

Strip(s) == RStrip(LStrip(s))

LowerStr(s) == [i \in 1..Len(s) |-> Lower(s[i])]

R_user == <<"u", "s", "e", "r">>
R_model == <<"m", "o", "d", "e", "l">>
R_assistant == <<"a", "s", "s", "i", "s", "t", "a", "n", "t">>
R_system == <<"s", "y", "s", "t", "e", "m">>
R_banana == <<"b", "a", "n", "a", "n", "a">>
R_User_padded == <<" ", "U", "s", "e", "r">>
R_MODEL == <<"M", "o", "d", "e", "l", " ">>
R_Banana == <<"B", "a", "n", "a", "n", "a">>

\* ------------------------------------------------------ provider classes
Vendors == {"openai", "anthropic", "gemini"}

\* Other subclasses of BaseProvider: the complete test provider, subclasses
\* that leave class attributes undefined, subclasses whose endpoint template
\* has a placeholder nobody fills (one of them a subclass of OpenAIProvider,
\* which builds its URL in __init__), and one whose base URL ends with a
\* slash while its endpoint starts without one.
TestClasses ==
    {"ConcreteTestProvider", "IncompleteProvider", "ParamProvider",
     "OpenAIParamProvider", "SlashProvider", "NoNameProvider",
     "NoDisplayNameProvider", "NoBaseUrlProvider", "NoEndpointProvider",
     "NoEnvKeyProvider"}
Classes == Vendors \cup TestClasses

ClassAttributes == {"name", "display_name", "base_url", "chat_endpoint", "env_key_name"}

\* getattr(self, attr, None) is not None
Defined(c, attr) ==
    CASE c = "IncompleteProvider" -> FALSE
      [] c = "NoNameProvider" -> attr # "name"
      [] c = "NoDisplayNameProvider" -> attr # "display_name"
      [] c = "NoBaseUrlProvider" -> attr # "base_url"
      [] c = "NoEndpointProvider" -> attr # "chat_endpoint"
      [] c = "NoEnvKeyProvider" -> attr # "env_key_name"
      [] OTHER -> TRUE

\* self.name
name_attr(c) ==
    IF c \in Vendors THEN c ELSE IF c = "OpenAIParamProvider" THEN "openai" ELSE "test"

\* A URL is a sequence of tokens in which every "/" is a token of its own, so
\* that rstrip("/") and startswith("/") are computed.  An endpoint template is
\* a sequence of literal token runs and {param} placeholders.
Lit(toks) == [param |-> FALSE, toks |-> toks]
Param(p) == [param |-> TRUE, name |-> p]

display_name(v) ==
    CASE v = "openai" -> "OpenAI"
      [] v = "anthropic" -> "Anthropic"
      [] v = "gemini" -> "Gemini"
      [] v = "OpenAIParamProvider" -> "OpenAI"
      [] v = "NoDisplayNameProvider" -> "None"   \* BaseProvider.display_name, as printed
      [] OTHER -> "Test Provider"

base_url(v) ==
    CASE v = "openai" -> << "https:", "/", "/", "api.openai.com" >>
      [] v = "anthropic" -> << "https:", "/", "/", "api.anthropic.com" >>
      [] v = "gemini" -> << "https:", "/", "/", "generativelanguage.googleapis.com" >>
      [] v = "OpenAIParamProvider" -> << "https:", "/", "/", "api.openai.com" >>
      [] v = "SlashProvider" -> << "https:", "/", "/", "api.test.com", "/" >>
      [] OTHER -> << "https:", "/", "/", "api.test.com" >>

chat_endpoint(v) ==
    CASE v = "openai" -> << Lit(<< "/", "v1", "/", "chat", "/", "completions" >>) >>
      [] v = "anthropic" -> << Lit(<< "/", "v1", "/", "messages" >>) >>
      [] v = "gemini" -> << Lit(<< "/", "v1beta", "/", "models", "/" >>),
                            Param("model"),
                            Lit(<< ":generateContent" >>) >>
      [] v \in {"ParamProvider", "OpenAIParamProvider"} ->
            << Lit(<< "/", "v1", "/" >>), Param("custom_param"), Lit(<< "/", "chat" >>) >>
      [] v = "SlashProvider" -> << Lit(<< "v1", "/", "chat" >>) >>
      [] OTHER -> << Lit(<< "/", "v1", "/", "chat" >>) >>

env_key_name(v) ==
    CASE v = "openai" -> "OPENAI_API_KEY"
      [] v = "anthropic" -> "ANTHROPIC_API_KEY"
      [] v = "gemini" -> "GEMINI_API_KEY"
      [] v = "OpenAIParamProvider" -> "OPENAI_API_KEY"
      [] OTHER -> "TEST_API_KEY"

EnvNames == { env_key_name(v) : v \in Vendors }

SUPPORTED_CUSTOM_KEYS(v) ==
    CASE v = "openai" ->
            {"presence_penalty", "frequency_penalty", "logit_bias", "seed", "n",
             "user", "store", "service_tier", "response_format",
             "max_completion_tokens"}
      [] v = "anthropic" ->
            {"top_k", "stop_sequences", "metadata", "stream", "user_id"}
      [] v = "gemini" -> {"topK", "candidateCount"}

DEFAULT_MAX_TOKENS == 1024

\* the sentinel default of the api_key parameter of every adapter constructor
DefaultApiKey == "default"

\* ------------------------------------------------------------------ state
VARIABLES
    env,             \* os.environ restricted to the vendors' key names
    phase,           \* "new", "ready" (constructed) or "failed" (constructor raised)
    name,            \* the adapter class' vendor name ("" before construction)
    model,           \* self.model ("" before construction)
    api_key,         \* self.api_key (optional string)
    _url,            \* self._url
    _headers,        \* self._headers
    _config,         \* self._config
    _system_prompt,  \* self._system_prompt (optional string)
    _http,           \* the HTTPClient's connection pool: "none", "open", "closed"
    last             \* what the most recent operation was given and produced

vars == << env, phase, name, model, api_key, _url, _headers, _config,
           _system_prompt, _http, last >>

adapter == << name, model, api_key, _url, _headers, _config, _system_prompt, _http >>

\* ------------------------------------------------------------ environment
EnvUnset == [n \in EnvNames |-> None]
EnvEmpty == [n \in EnvNames |-> Some("")]
EnvAll ==
    [n \in EnvNames |->
        CASE n = "OPENAI_API_KEY" -> Some("env-openai")
          [] n = "ANTHROPIC_API_KEY" -> Some("env-anthropic")
          [] n = "GEMINI_API_KEY" -> Some("env-gemini")]
EnvOnlyOpenAI == [n \in EnvNames |-> IF n = "OPENAI_API_KEY" THEN Some("env-openai") ELSE None]

Environments == {EnvUnset, EnvEmpty, EnvAll, EnvOnlyOpenAI}

\* load_env_api_key that reads one fixed variable for every vendor
load_env_api_key_fixed(v, e) == e["OPENAI_API_KEY"]

\* os.getenv(cls.env_key_name)
load_env_api_key(v, e) == IF env_key_name(v) \in DOMAIN e THEN e[env_key_name(v)] ELSE None

\* ----------------------------------------------------------- construction
\* str.format(**path_params) on the endpoint template: the first placeholder
\* without a value raises KeyError(name).
RECURSIVE FormatEndpoint(_, _)
FormatEndpoint(tmpl, params) ==
    IF tmpl = <<>> THEN [ok |-> TRUE, toks |-> <<>>]
    ELSE LET seg == Head(tmpl)
             rest == FormatEndpoint(Tail(tmpl), params)
         IN  IF seg.param /\ seg.name \notin DOMAIN params
             THEN [ok |-> FALSE, missing |-> seg.name]
             ELSE IF ~rest.ok THEN rest
             ELSE [ok |-> TRUE,
                   toks |-> (IF seg.param THEN << params[seg.name] >> ELSE seg.toks)
                            \o rest.toks]

\* an rstrip that leaves the trailing slashes where they are
RStripSlash_keep(s) == s

\* str(self.base_url).rstrip("/")
RECURSIVE RStripSlash(_)
RStripSlash(s) ==
    IF s = <<>> THEN s
    ELSE IF s[Len(s)] = "/" THEN RStripSlash(SubSeq(s, 1, Len(s) - 1)) ELSE s

_get_chat_url(v, path_params) ==
    LET f == FormatEndpoint(chat_endpoint(v), path_params)
    IN  IF ~f.ok
        THEN [ok |-> FALSE,
              raised |-> [type |-> "ValueError", what |-> "Missing path parameter",
                          param |-> f.missing, provider |-> name_attr(v)]]
        ELSE LET base == RStripSlash(base_url(v))
                 endpoint == IF f.toks # <<>> /\ Head(f.toks) = "/"
                             THEN f.toks ELSE << "/" >> \o f.toks
             IN  [ok |-> TRUE, url |-> base \o endpoint]

\* the keyword arguments each subclass passes to _get_chat_url
UrlParams(v, m) == IF v = "gemini" THEN [model |-> m] ELSE EmptyDict

\* the classes whose __init__ goes on to build self._url and self._headers
BuildsUrl(c) == c \in Vendors \cup {"OpenAIParamProvider"}

\* BaseProvider._check_class_vars: the first of the four attributes that is
\* None raises
RECURSIVE CheckAttrs(_, _)
CheckAttrs(c, attrs) ==
    IF attrs = <<>> THEN [ok |-> TRUE]
    ELSE IF ~Defined(c, Head(attrs))
    THEN [ok |-> FALSE,
          raised |-> [type |-> "NotImplementedError", cls |-> c, attr |-> Head(attrs)]]
    ELSE CheckAttrs(c, Tail(attrs))

_check_class_vars(c) == CheckAttrs(c, << "name", "base_url", "chat_endpoint", "env_key_name" >>)

_get_headers(v, key) ==
    CASE v = "openai" ->
            ("Authorization" :> "Bearer " \o key)
            @@ ("Content-Type" :> "application/json")
      [] v = "anthropic" ->
            ("x-api-key" :> key)
            @@ ("anthropic-version" :> "2023-06-01")
            @@ ("content-type" :> "application/json")
      [] v = "gemini" ->
            ("x-goog-api-key" :> key)
            @@ ("Content-Type" :> "application/json")

\* the api_key the constructor receives: the parameter's default when the
\* caller omits it (None), else the string the caller passed
ApiKeyParam(given) == IF given = None THEN DefaultApiKey ELSE Val(given)

\* the environment variable preferred to the api_key argument
ResolveApiKey_env_first(v, key_arg, e) ==
    IF Truthy(load_env_api_key(v, e)) THEN load_env_api_key(v, e) ELSE Some(key_arg)

\* self.load_env_api_key() if api_key == "default" else api_key
ResolveApiKey(v, key_arg, e) ==
    IF key_arg = DefaultApiKey THEN load_env_api_key(v, e) ELSE Some(key_arg)

MissingAPIKeyError(v, m) ==
    [type |-> "MissingAPIKeyError", provider |-> name_attr(v),
     display_name |-> display_name(v),
     model |-> m,
     suggestion |-> << "Set the ", env_key_name(v),
                       " environment variable or pass api_key explicitly." >>]

\* <Vendor>Provider(model=m, timeout=...) when given is None, and
\* <Vendor>Provider(model=m, api_key=Val(given), timeout=...) otherwise
Construct(v, m, given) ==
    /\ phase = "new"
    /\ name' = v
    /\ _system_prompt' = None
    /\ _config' = EmptyDict
    /\ IF ~_check_class_vars(v).ok
       THEN /\ phase' = "failed"
            /\ model' = ""
            /\ _http' = "none"
            /\ api_key' = None
            /\ _url' = None
            /\ _headers' = None
            /\ last' = [op |-> "init", cls |-> v, given |-> given, posts |-> 0,
                        env_read |-> FALSE,
                        raised |-> Some(_check_class_vars(v).raised)]
       ELSE LET key_arg == ApiKeyParam(given)
                key == ResolveApiKey(v, key_arg, env)
                u == _get_chat_url(v, UrlParams(v, m))
            IN  /\ model' = m
                /\ _http' = "open"
                /\ api_key' = key
                /\ IF ~Truthy(key)
                   THEN /\ phase' = "failed"
                        /\ _url' = None
                        /\ _headers' = None
                        /\ last' = [op |-> "init", cls |-> v, given |-> given, posts |-> 0,
                                    env_read |-> key_arg = DefaultApiKey,
                                    raised |-> Some(MissingAPIKeyError(v, m))]
                   ELSE IF ~BuildsUrl(v)
                   THEN /\ phase' = "ready"
                        /\ _url' = None
                        /\ _headers' = None
                        /\ last' = [op |-> "init", cls |-> v, given |-> given, posts |-> 0,
                                    env_read |-> key_arg = DefaultApiKey, raised |-> None]
                   ELSE IF ~u.ok
                   THEN /\ phase' = "failed"
                        /\ _url' = None
                        /\ _headers' = None
                        /\ last' = [op |-> "init", cls |-> v, given |-> given, posts |-> 0,
                                    env_read |-> key_arg = DefaultApiKey,
                                    raised |-> Some(u.raised)]
                   ELSE /\ phase' = "ready"
                        /\ _url' = Some(u.url)
                        /\ _headers' = Some(_get_headers(v, Val(key)))
                        /\ last' = [op |-> "init", cls |-> v, given |-> given, posts |-> 0,
                                    env_read |-> key_arg = DefaultApiKey, raised |-> None]
    /\ UNCHANGED env

\* provider._get_chat_url(**path_params) on a constructed adapter
GetChatUrl(path_params) ==
    /\ phase = "ready"
    /\ \E r \in {_get_chat_url(name, path_params)} :
           last' = [op |-> "_get_chat_url", params |-> path_params, posts |-> 0,
                    raised |-> IF r.ok THEN None ELSE Some(r.raised),
                    url |-> IF r.ok THEN Some(r.url) ELSE None]
    /\ UNCHANGED << env, phase, adapter >>

\* ------------------------------------------------------------ JSON values
JNull == [t |-> "null"]
JStr(x) == [t |-> "str", v |-> x]
JInt(n) == [t |-> "int", v |-> n]
JList(l) == [t |-> "list", v |-> l]
JObj(f) == [t |-> "obj", v |-> f]

IsNull(x) == x.t = "null"
IsDict(x) == x.t = "obj"
IsList(x) == x.t = "list"
IsStr(x) == x.t = "str"
IsInt(x) == x.t = "int"

\* dict.get(k) on a decoded JSON object: an absent key and a JSON null are
\* both Python's None
Get(x, k) == IF k \in DOMAIN x.v THEN x.v[k] ELSE JNull

\* Python truthiness of a decoded JSON value
JTruthy(x) ==
    CASE x.t = "null" -> FALSE
      [] x.t = "str" -> x.v # ""
      [] x.t = "int" -> x.v # 0
      [] x.t = "list" -> x.v # <<>>
      [] x.t = "obj" -> DOMAIN x.v # {}

\* a or b
Or(a, b) == IF JTruthy(a) THEN a ELSE b

\* str(n) for the integers that occur in the sample bodies
IntToStr(n) ==
    CASE n = 400 -> "400"
      [] n = 5 -> "5"
      [] n = 1 -> "1"
      [] OTHER -> "<int>"

\* str.strip() for the strings that occur as request ids and contents
StripStr(x) ==
    CASE x = " rid-pad " -> "rid-pad"
      [] x = "  " -> ""
      [] x = " X " -> "X"
      [] OTHER -> x

\* ---------------------------------------------------------- sample bodies
B_plain == "Internal Server Error"
B_array == "[1]"
B_err_full == "{\"error\":{\"message\":\"bad key\",\"type\":\"auth\",\"code\":\"invalid_api_key\"}}"
B_err_nomsg == "{\"error\":{\"type\":\"auth\"}}"
B_err_google == "{\"error\":{\"code\":400,\"message\":\"API key not valid\",\"status\":\"INVALID_ARGUMENT\"}}"
B_err_rid == "{\"error\":{\"type\":\"auth\",\"message\":\"Invalid API key\"},\"request_id\":\"req_body\"}"
B_msg == "{\"message\":\"oops\"}"
B_msg_int == "{\"message\":5}"
B_other == "{\"detail\":\"x\"}"
B_err_str == "{\"error\":\"bad\"}"
B_empty == "{}"
B_choices_str == "{\"choices\":\"x\"}"
B_choices_null == "{\"choices\":null}"
B_choices_empty == "{\"choices\":[]}"
B_choices == "{\"choices\":[{\"message\":{\"content\":\"Hi\"}}],\"usage\":{\"prompt_tokens\":10,\"completion_tokens\":5,\"total_tokens\":15}}"
B_content_str == "{\"content\":\"x\"}"
B_content_empty == "{\"content\":[]}"
B_content == "{\"content\":[{\"type\":\"text\",\"text\":\"A\"},{\"type\":\"text\",\"text\":\"B\"}]}"
B_cand_str == "{\"candidates\":\"x\"}"
B_cand_empty == "{\"candidates\":[]}"
B_cand_null == "{\"candidates\":null}"
B_cand == "{\"responseId\":\"resp-1\",\"candidates\":[{\"content\":{\"parts\":[{\"text\":\"G\"}]}}]}"
\* bodies every adapter extracts an empty text from, varying the usage object
U_none == "{\"choices\":[],\"content\":[]}"
U_str == "{\"choices\":[],\"content\":[],\"usage\":\"x\",\"usageMetadata\":\"x\"}"
U_empty == "{\"choices\":[],\"content\":[],\"usage\":{},\"usageMetadata\":{}}"
U_full == "{\"choices\":[],\"content\":[],\"usage\":{\"prompt_tokens\":10,\"completion_tokens\":5,\"total_tokens\":99,\"input_tokens\":7,\"output_tokens\":3},\"usageMetadata\":{\"promptTokenCount\":12,\"candidatesTokenCount\":18,\"totalTokenCount\":31}}"
U_zero == "{\"choices\":[],\"content\":[],\"usage\":{\"prompt_tokens\":0,\"completion_tokens\":0,\"total_tokens\":0,\"input_tokens\":0,\"output_tokens\":0},\"usageMetadata\":{\"promptTokenCount\":0,\"candidatesTokenCount\":0,\"totalTokenCount\":0}}"
U_partial == "{\"choices\":[],\"content\":[],\"usage\":{\"prompt_tokens\":10,\"input_tokens\":7},\"usageMetadata\":{\"promptTokenCount\":12}}"
\* bodies with several choices, blocks, candidates and parts
T_multi == "{\"choices\":[{\"message\":{\"content\":\"Hi\"}},{\"message\":{\"content\":\"No\"}}],\"content\":[{\"type\":\"text\",\"text\":\"A\"},{\"type\":\"tool_use\",\"text\":\"T\"},{\"type\":\"text\",\"text\":\"B\"}],\"candidates\":[{\"content\":{\"parts\":[{\"text\":\"G\"},{\"inlineData\":\"img\"},{\"text\":5},{\"text\":\"H\"}]}},{\"content\":{\"parts\":[{\"text\":\"Z\"}]}}]}"
T_odd == "{\"choices\":[{\"message\":{\"content\":null}},{\"message\":{\"content\":\"No\"}}],\"content\":[{\"type\":\"image\"},\"raw\",{\"type\":\"text\",\"text\":5},{\"text\":\"untyped\"}],\"candidates\":[{\"content\":{\"parts\":[]}},{\"content\":{\"parts\":[{\"text\":\"Z\"}]}}]}"
U_nonint == "{\"choices\":[],\"content\":[],\"usage\":{\"input_tokens\":\"7\",\"output_tokens\":3,\"total_tokens\":\"many\"}}"

Decoded(x) == [ok |-> TRUE, val |-> x]

\* resp.json(): the decoding of each sample body; any other text is not JSON
JsonDecode(text) ==
    CASE text = B_array -> Decoded(JList(<< JInt(1) >>))
      [] text = B_err_full ->
            Decoded(JObj([error |-> JObj([message |-> JStr("bad key"),
                                          type |-> JStr("auth"),
                                          code |-> JStr("invalid_api_key")])]))
      [] text = B_err_nomsg -> Decoded(JObj([error |-> JObj([type |-> JStr("auth")])]))
      [] text = B_err_google ->
            Decoded(JObj([error |-> JObj([code |-> JInt(400),
                                          message |-> JStr("API key not valid"),
                                          status |-> JStr("INVALID_ARGUMENT")])]))
      [] text = B_err_rid ->
            Decoded(JObj([error |-> JObj([type |-> JStr("auth"),
                                          message |-> JStr("Invalid API key")]),
                          request_id |-> JStr("req_body")]))
      [] text = B_msg -> Decoded(JObj([message |-> JStr("oops")]))
      [] text = B_msg_int -> Decoded(JObj([message |-> JInt(5)]))
      [] text = B_other -> Decoded(JObj([detail |-> JStr("x")]))
      [] text = B_err_str -> Decoded(JObj([error |-> JStr("bad")]))
      [] text = B_empty -> Decoded(JObj(EmptyDict))
      [] text = B_choices_str -> Decoded(JObj([choices |-> JStr("x")]))
      [] text = B_choices_null -> Decoded(JObj([choices |-> JNull]))
      [] text = B_choices_empty -> Decoded(JObj([choices |-> JList(<<>>)]))
      [] text = B_choices ->
            Decoded(JObj([choices |-> JList(<< JObj([message |->
                                                JObj([content |-> JStr("Hi")])]) >>),
                          usage |-> JObj([prompt_tokens |-> JInt(10),
                                          completion_tokens |-> JInt(5),
                                          total_tokens |-> JInt(15)])]))
      [] text = B_content_str -> Decoded(JObj([content |-> JStr("x")]))
      [] text = B_content_empty -> Decoded(JObj([content |-> JList(<<>>)]))
      [] text = B_content ->
            Decoded(JObj([content |-> JList(<< JObj([type |-> JStr("text"), text |-> JStr("A")]),
                                               JObj([type |-> JStr("text"), text |-> JStr("B")]) >>)]))
      [] text = B_cand_str -> Decoded(JObj([candidates |-> JStr("x")]))
      [] text = B_cand_empty -> Decoded(JObj([candidates |-> JList(<<>>)]))
      [] text = B_cand_null -> Decoded(JObj([candidates |-> JNull]))
      [] text = B_cand ->
            Decoded(JObj([responseId |-> JStr("resp-1"),
                          candidates |-> JList(<< JObj([content |->
                              JObj([parts |-> JList(<< JObj([text |-> JStr("G")]) >>)])]) >>)]))
      [] text = U_none -> Decoded(JObj([choices |-> JList(<<>>), content |-> JList(<<>>)]))
      [] text = U_str ->
            Decoded(JObj([choices |-> JList(<<>>), content |-> JList(<<>>),
                          usage |-> JStr("x"), usageMetadata |-> JStr("x")]))
      [] text = U_empty ->
            Decoded(JObj([choices |-> JList(<<>>), content |-> JList(<<>>),
                          usage |-> JObj(EmptyDict), usageMetadata |-> JObj(EmptyDict)]))
      [] text = U_full ->
            Decoded(JObj([choices |-> JList(<<>>), content |-> JList(<<>>),
                          usage |-> JObj([prompt_tokens |-> JInt(10),
                                          completion_tokens |-> JInt(5),
                                          total_tokens |-> JInt(99),
                                          input_tokens |-> JInt(7),
                                          output_tokens |-> JInt(3)]),
                          usageMetadata |-> JObj([promptTokenCount |-> JInt(12),
                                                  candidatesTokenCount |-> JInt(18),
                                                  totalTokenCount |-> JInt(31)])]))
      [] text = U_zero ->
            Decoded(JObj([choices |-> JList(<<>>), content |-> JList(<<>>),
                          usage |-> JObj([prompt_tokens |-> JInt(0),
                                          completion_tokens |-> JInt(0),
                                          total_tokens |-> JInt(0),
                                          input_tokens |-> JInt(0),
                                          output_tokens |-> JInt(0)]),
                          usageMetadata |-> JObj([promptTokenCount |-> JInt(0),
                                                  candidatesTokenCount |-> JInt(0),
                                                  totalTokenCount |-> JInt(0)])]))
      [] text = U_partial ->
            Decoded(JObj([choices |-> JList(<<>>), content |-> JList(<<>>),
                          usage |-> JObj([prompt_tokens |-> JInt(10),
                                          input_tokens |-> JInt(7)]),
                          usageMetadata |-> JObj([promptTokenCount |-> JInt(12)])]))
      [] text = U_nonint ->
            Decoded(JObj([choices |-> JList(<<>>), content |-> JList(<<>>),
                          usage |-> JObj([input_tokens |-> JStr("7"),
                                          output_tokens |-> JInt(3),
                                          total_tokens |-> JStr("many")])]))
      [] text = T_multi ->
            Decoded(JObj([choices |-> JList(<< JObj([message |-> JObj([content |-> JStr("Hi")])]),
                                               JObj([message |-> JObj([content |-> JStr("No")])]) >>),
                          content |-> JList(<< JObj([type |-> JStr("text"), text |-> JStr("A")]),
                                               JObj([type |-> JStr("tool_use"), text |-> JStr("T")]),
                                               JObj([type |-> JStr("text"), text |-> JStr("B")]) >>),
                          candidates |-> JList(<<
                              JObj([content |-> JObj([parts |-> JList(<<
                                        JObj([text |-> JStr("G")]),
                                        JObj([inlineData |-> JStr("img")]),
                                        JObj([text |-> JInt(5)]),
                                        JObj([text |-> JStr("H")]) >>)])]),
                              JObj([content |-> JObj([parts |-> JList(<<
                                        JObj([text |-> JStr("Z")]) >>)])]) >>)]))
      [] text = T_odd ->
            Decoded(JObj([choices |-> JList(<< JObj([message |-> JObj([content |-> JNull])]),
                                               JObj([message |-> JObj([content |-> JStr("No")])]) >>),
                          content |-> JList(<< JObj([type |-> JStr("image")]),
                                               JStr("raw"),
                                               JObj([type |-> JStr("text"), text |-> JInt(5)]),
                                               JObj([text |-> JStr("untyped")]) >>),
                          candidates |-> JList(<<
                              JObj([content |-> JObj([parts |-> JList(<<>>)])]),
                              JObj([content |-> JObj([parts |-> JList(<<
                                        JObj([text |-> JStr("Z")]) >>)])]) >>)]))
      [] OTHER -> [ok |-> FALSE]

\* httpx.Headers.get(k): header names are matched case-insensitively, so the
\* model keeps them in lower case
HGet(h, k) == IF k \in DOMAIN h THEN JStr(h[k]) ELSE JNull

\* ------------------------------------------------- error-detail extraction
APIErrorDetails(message, error_type, code, raw, request_id) ==
    [message |-> message, error_type |-> error_type, code |-> code,
     raw |-> raw, request_id |-> request_id]

OpenAI_extract_error_details(resp) ==
    LET request_id == Or(HGet(resp.headers, "x-request-id"), HGet(resp.headers, "request-id"))
        d == JsonDecode(resp.text)
        payload == d.val
    IN  IF ~d.ok
        THEN APIErrorDetails(JStr(resp.text), JNull, JNull, JStr(resp.text), request_id)
        ELSE IF IsDict(payload) /\ IsDict(Get(payload, "error"))
        THEN LET err == Get(payload, "error")
             IN  APIErrorDetails(Or(Get(err, "message"), JStr(resp.text)),
                                 Get(err, "type"), Get(err, "code"), payload, request_id)
        ELSE APIErrorDetails(IF IsDict(payload) THEN Get(payload, "message")
                                                ELSE JStr(resp.text),
                             JNull, JNull, payload, request_id)

\* error details in which a request id of the body replaces the headers' one
Anthropic_extract_error_details_body_first(resp) ==
    LET hdr_id == Or(HGet(resp.headers, "request-id"), HGet(resp.headers, "x-request-id"))
        d == JsonDecode(resp.text)
        payload == d.val
    IN  IF ~d.ok
        THEN APIErrorDetails(JStr(resp.text), JNull, JNull, JStr(resp.text), hdr_id)
        ELSE IF IsDict(payload)
        THEN LET rid2 == Get(payload, "request_id")
                 request_id == IF IsStr(rid2) THEN rid2 ELSE hdr_id
                 err == Get(payload, "error")
                 msg == Get(payload, "message")
             IN  IF IsDict(err)
                 THEN APIErrorDetails(Or(Get(err, "message"), JStr(resp.text)),
                                      Get(err, "type"), JNull, payload, request_id)
                 ELSE APIErrorDetails(IF IsStr(msg) THEN msg ELSE JStr(resp.text),
                                      JNull, JNull, payload, request_id)
        ELSE APIErrorDetails(JStr(resp.text), JNull, JNull, payload, hdr_id)

Anthropic_extract_error_details(resp) ==
    LET hdr_id == Or(HGet(resp.headers, "request-id"), HGet(resp.headers, "x-request-id"))
        d == JsonDecode(resp.text)
        payload == d.val
    IN  IF ~d.ok
        THEN APIErrorDetails(JStr(resp.text), JNull, JNull, JStr(resp.text), hdr_id)
        ELSE IF IsDict(payload)
        THEN LET rid2 == Get(payload, "request_id")
                 request_id == IF IsStr(rid2) /\ ~JTruthy(hdr_id) THEN rid2 ELSE hdr_id
                 err == Get(payload, "error")
                 msg == Get(payload, "message")
             IN  IF IsDict(err)
                 THEN APIErrorDetails(Or(Get(err, "message"), JStr(resp.text)),
                                      Get(err, "type"), JNull, payload, request_id)
                 ELSE APIErrorDetails(IF IsStr(msg) THEN msg ELSE JStr(resp.text),
                                      JNull, JNull, payload, request_id)
        ELSE APIErrorDetails(JStr(resp.text), JNull, JNull, payload, hdr_id)

Gemini_extract_error_details(resp) ==
    LET request_id == Or(HGet(resp.headers, "x-goog-request-id"),
                         Or(HGet(resp.headers, "x-request-id"),
                            HGet(resp.headers, "request-id")))
        d == JsonDecode(resp.text)
        payload == d.val
    IN  IF ~d.ok
        THEN APIErrorDetails(JStr(resp.text), JNull, JNull, JStr(resp.text), request_id)
        ELSE IF IsDict(payload)
        THEN LET err == Get(payload, "error")
                 fallback == Get(payload, "message")
             IN  IF IsDict(err)
                 THEN LET msg == Or(Get(err, "message"), JStr(resp.text))
                          status == Get(err, "status")
                          code == Get(err, "code")
                      IN  APIErrorDetails(
                              IF IsStr(msg) THEN msg ELSE JStr(resp.text),
                              IF IsStr(status) THEN status ELSE JNull,
                              IF IsNull(code) THEN JNull
                              ELSE IF IsInt(code) THEN JStr(IntToStr(code.v)) ELSE code,
                              payload, request_id)
                 ELSE APIErrorDetails(IF IsStr(fallback) THEN fallback ELSE JStr(resp.text),
                                      JNull, JNull, payload, request_id)
        ELSE APIErrorDetails(JStr(resp.text), JNull, JNull, payload, request_id)

_extract_error_details(v, resp) ==
    CASE v = "openai" -> OpenAI_extract_error_details(resp)
      [] v = "anthropic" -> Anthropic_extract_error_details(resp)
      [] v = "gemini" -> Gemini_extract_error_details(resp)


\* ------------------------------------------------------ success extraction
\* ProviderParseError raised without raw=
ProviderParseError_no_raw(v, m, status, detail, raw) ==
    [type |-> "ProviderParseError", provider |-> v, display_name |-> display_name(v),
     model |-> m, status_code |-> status, detail |-> detail, raw |-> JNull]

ProviderParseError(v, m, status, detail, raw) ==
    [type |-> "ProviderParseError", provider |-> v, display_name |-> display_name(v),
     model |-> m, status_code |-> status, detail |-> detail, raw |-> raw]

Text(x) == [ok |-> TRUE, text |-> x]
Raise(e) == [ok |-> FALSE, raised |-> e]

\* _extract_text that takes a missing or malformed 'choices' for "no text"
OpenAI_extract_text_lenient(m, data) ==
    LET choices == Get(data, "choices")
    IN  IF ~IsList(choices) \/ choices.v = <<>> THEN [ok |-> TRUE, text |-> ""]
        ELSE LET c0 == choices.v[1]
                 msg == IF IsDict(c0) THEN Get(c0, "message") ELSE JNull
                 content == IF IsDict(msg) THEN Get(msg, "content") ELSE JNull
             IN  [ok |-> TRUE, text |-> IF IsStr(content) THEN content.v ELSE ""]

OpenAI_extract_text(m, data) ==
    LET choices == Get(data, "choices")
    IN  IF ~IsList(choices)
        THEN Raise(ProviderParseError("openai", m, None,
                 "Unexpected response shape: 'choices' "
                     \o (IF IsNull(choices) THEN "missing" ELSE "not a list") \o ".",
                 data))
        ELSE IF choices.v = <<>> THEN Text("")
        ELSE LET c0 == choices.v[1]
                 msg == IF IsDict(c0) THEN Get(c0, "message") ELSE JNull
                 content == IF IsDict(msg) THEN Get(msg, "content") ELSE JNull
             IN  Text(IF IsStr(content) THEN content.v ELSE "")

\* "".join of the text of every block of type "text"
RECURSIVE JoinTextBlocks(_)
JoinTextBlocks(blocks) ==
    IF blocks = <<>> THEN ""
    ELSE LET b == Head(blocks)
             t == IF IsDict(b) THEN Get(b, "text") ELSE JNull
             ty == IF IsDict(b) THEN Get(b, "type") ELSE JNull
         IN  (IF IsDict(b) /\ IsStr(ty) /\ ty.v = "text" /\ IsStr(t) THEN t.v ELSE "")
             \o JoinTextBlocks(Tail(blocks))

\* _extract_text that reads the first content block only
Anthropic_extract_text_first_block(m, data) ==
    LET blocks == Get(data, "content")
    IN  IF ~IsList(blocks)
        THEN Raise(ProviderParseError("anthropic", m, None,
                 "Unexpected response shape: 'content' missing or not a list.", data))
        ELSE IF blocks.v = <<>> THEN Text("")
        ELSE Text(JoinTextBlocks(<< blocks.v[1] >>))

Anthropic_extract_text(m, data) ==
    LET blocks == Get(data, "content")
    IN  IF ~IsList(blocks)
        THEN Raise(ProviderParseError("anthropic", m, None,
                 "Unexpected response shape: 'content' missing or not a list.", data))
        ELSE IF blocks.v = <<>> THEN Text("")
        ELSE Text(JoinTextBlocks(blocks.v))

\* "".join of the string text of every part
RECURSIVE JoinParts(_)
JoinParts(parts) ==
    IF parts = <<>> THEN ""
    ELSE LET p == Head(parts)
             t == IF IsDict(p) THEN Get(p, "text") ELSE JNull
         IN  (IF IsDict(p) /\ IsStr(t) THEN t.v ELSE "") \o JoinParts(Tail(parts))

\* _extract_text that takes absent 'candidates' for a malformed response
Gemini_extract_text_strict(m, data) ==
    LET candidates == Get(data, "candidates")
    IN  IF ~IsList(candidates)
        THEN Raise(ProviderParseError("gemini", m, None,
                 "Unexpected response shape: 'candidates' missing or not a list.", data))
        ELSE IF candidates.v = <<>> THEN Text("")
        ELSE LET c0 == candidates.v[1]
                 content == IF IsDict(c0) THEN Get(c0, "content") ELSE JNull
                 parts == IF IsDict(content) THEN Get(content, "parts") ELSE JNull
             IN  IF ~IsDict(c0) THEN Text("")
                 ELSE IF ~IsDict(content) THEN Text("")
                 ELSE IF ~IsList(parts) THEN Text("")
                 ELSE Text(JoinParts(parts.v))

Gemini_extract_text(m, data) ==
    LET candidates == Get(data, "candidates")
    IN  IF IsNull(candidates) THEN Text("")
        ELSE IF ~IsList(candidates)
        THEN Raise(ProviderParseError("gemini", m, None,
                 "Unexpected response shape: 'candidates' missing or not a list.", data))
        ELSE IF candidates.v = <<>> THEN Text("")
        ELSE LET c0 == candidates.v[1]
                 content == IF IsDict(c0) THEN Get(c0, "content") ELSE JNull
                 parts == IF IsDict(content) THEN Get(content, "parts") ELSE JNull
             IN  IF ~IsDict(c0) THEN Text("")
                 ELSE IF ~IsDict(content) THEN Text("")
                 ELSE IF ~IsList(parts) THEN Text("")
                 ELSE Text(JoinParts(parts.v))

_extract_text(v, m, data) ==
    CASE v = "openai" -> OpenAI_extract_text(m, data)
      [] v = "anthropic" -> Anthropic_extract_text(m, data)
      [] v = "gemini" -> Gemini_extract_text(m, data)

LLMUsage(p, c, t) == [prompt_tokens |-> p, completion_tokens |-> c, total_tokens |-> t]

OpenAI_extract_usage(data) ==
    LET usage_obj == Get(data, "usage")
    IN  IF ~IsDict(usage_obj) THEN None
        ELSE Some(LLMUsage(Get(usage_obj, "prompt_tokens"),
                           Get(usage_obj, "completion_tokens"),
                           Get(usage_obj, "total_tokens")))

\* usage extraction that reports zero counts when there is no usage object
Anthropic_extract_usage_zero(data) ==
    LET usage_obj == Get(data, "usage")
        prompt_tokens == Get(usage_obj, "input_tokens")
        completion_tokens == Get(usage_obj, "output_tokens")
    IN  IF ~IsDict(usage_obj) THEN Some(LLMUsage(JInt(0), JInt(0), JInt(0)))
        ELSE Some(LLMUsage(prompt_tokens, completion_tokens,
                           IF IsInt(prompt_tokens) /\ IsInt(completion_tokens)
                           THEN JInt(prompt_tokens.v + completion_tokens.v)
                           ELSE JNull))

Anthropic_extract_usage(data) ==
    LET usage_obj == Get(data, "usage")
        prompt_tokens == Get(usage_obj, "input_tokens")
        completion_tokens == Get(usage_obj, "output_tokens")
    IN  IF ~IsDict(usage_obj) THEN None
        ELSE Some(LLMUsage(prompt_tokens, completion_tokens,
                           IF IsInt(prompt_tokens) /\ IsInt(completion_tokens)
                           THEN JInt(prompt_tokens.v + completion_tokens.v)
                           ELSE JNull))

Gemini_extract_usage(data) ==
    LET usage == Get(data, "usageMetadata")
    IN  IF ~IsDict(usage) THEN None
        ELSE Some(LLMUsage(Get(usage, "promptTokenCount"),
                           Get(usage, "candidatesTokenCount"),
                           Get(usage, "totalTokenCount")))

_extract_usage(v, data) ==
    CASE v = "openai" -> OpenAI_extract_usage(data)
      [] v = "anthropic" -> Anthropic_extract_usage(data)
      [] v = "gemini" -> Gemini_extract_usage(data)

\* rid.strip() if rid else None
StripOrNone(rid) == IF JTruthy(rid) THEN Some(StripStr(rid.v)) ELSE None

_extract_request_id(v, http_resp) ==
    CASE v = "openai" ->
            StripOrNone(Or(HGet(http_resp.headers, "x-request-id"),
                           HGet(http_resp.headers, "request-id")))
      [] v = "anthropic" ->
            StripOrNone(Or(HGet(http_resp.headers, "request-id"),
                           HGet(http_resp.headers, "x-request-id")))
      [] v = "gemini" ->
            LET rid == Get(http_resp.data, "responseId")
            IN  IF IsStr(rid) /\ StripStr(rid.v) # "" THEN Some(StripStr(rid.v)) ELSE None

\* -------------------------------------------------------------- transport
\* What the underlying httpx.Client.post does is the outcome o: it raises
\* httpx.TimeoutException ("timeout"), raises another httpx.RequestError
\* ("network"), or returns a response; t0 and t1 are the perf_counter readings
\* around the call.
\* post with the status test written as > 400
HTTPClient_post_above_400(o) ==
    IF o.kind = "timeout" THEN [ok |-> FALSE, raised |-> [type |-> "HTTPTimeoutError"]]
    ELSE IF o.kind = "network" THEN [ok |-> FALSE, raised |-> [type |-> "HTTPNetworkError"]]
    ELSE IF o.resp.status_code > 400
    THEN [ok |-> FALSE, raised |-> [type |-> "HTTPStatusError", response |-> o.resp]]
    ELSE [ok |-> TRUE, resp |-> o.resp, latency_ms |-> (o.t1 - o.t0) * 1000]

HTTPClient_post(o) ==
    IF o.kind = "timeout" THEN [ok |-> FALSE, raised |-> [type |-> "HTTPTimeoutError"]]
    ELSE IF o.kind = "network" THEN [ok |-> FALSE, raised |-> [type |-> "HTTPNetworkError"]]
    ELSE IF o.resp.status_code >= 400
    THEN [ok |-> FALSE, raised |-> [type |-> "HTTPStatusError", response |-> o.resp]]
    ELSE [ok |-> TRUE, resp |-> o.resp, latency_ms |-> (o.t1 - o.t0) * 1000]

\* ---------------------------------------------------------- base contract
\* the transport's own exception passed on in place of ProviderHTTPError
ProviderHTTPError_raw(v, m) == [type |-> "HTTPTimeoutError"]

\* ProviderHTTPError raised without model=
ProviderHTTPError_no_model(v, m) ==
    [type |-> "ProviderHTTPError", provider |-> v, display_name |-> display_name(v),
     model |-> ""]

ProviderHTTPError(v, m) ==
    [type |-> "ProviderHTTPError", provider |-> v, display_name |-> display_name(v),
     model |-> m]

ProviderAPIError(v, m, status, d) ==
    [type |-> "ProviderAPIError", provider |-> v, display_name |-> display_name(v),
     model |-> m, status_code |-> status, error_type |-> d.error_type, code |-> d.code,
     request_id |-> d.request_id, detail |-> d.message, raw |-> d.raw]

\* BaseProvider._get_response, given what the transport's post produced.
\* steps lists the stages run after the send.
_get_response(v, m, posted) ==
    IF ~posted.ok
    THEN IF posted.raised.type \in {"HTTPTimeoutError", "HTTPNetworkError"}
         THEN [ok |-> FALSE, hooks |-> <<>>, steps |-> << "MAP_TRANSPORT_ERROR" >>,
               raised |-> ProviderHTTPError(v, m)]
         ELSE LET resp == posted.raised.response
              IN  [ok |-> FALSE, hooks |-> << "_extract_error_details" >>,
                   steps |-> << "MAP_TRANSPORT_ERROR" >>,
                   raised |-> ProviderAPIError(v, m, resp.status_code,
                                               _extract_error_details(v, resp))]
    ELSE LET resp == posted.resp
             d == JsonDecode(resp.text)
         IN  IF ~d.ok
             THEN [ok |-> FALSE, hooks |-> <<>>, steps |-> << "PARSE_JSON" >>,
                   raised |-> ProviderParseError(v, m, Some(resp.status_code),
                                  "Response was not valid JSON.", JStr(resp.text))]
             ELSE IF ~IsDict(d.val)
             THEN [ok |-> FALSE, hooks |-> <<>>,
                   steps |-> << "PARSE_JSON", "VALIDATE_SHAPE" >>,
                   raised |-> ProviderParseError(v, m, Some(resp.status_code),
                                  "Unexpected JSON shape (expected object).", d.val)]
             ELSE [ok |-> TRUE, hooks |-> <<>>,
                   steps |-> << "PARSE_JSON", "VALIDATE_SHAPE" >>,
                   http_resp |-> [data |-> d.val, status_code |-> resp.status_code,
                                  latency_ms |-> posted.latency_ms,
                                  headers |-> resp.headers]]

\* a response that reports no latency
ChatResponse_no_latency(text, raw, usage, provider, m, status, latency, request_id) ==
    [text |-> text, raw |-> raw, usage |-> usage, provider |-> provider, model |-> m,
     status_code |-> status, latency_ms |-> 0, request_id |-> request_id]

\* ChatResponse(text=, raw=, usage=, provider=, model=, status_code=,
\* latency_ms=, request_id=)
ChatResponse(text, raw, usage, provider, m, status, latency, request_id) ==
    [text |-> text, raw |-> raw, usage |-> usage, provider |-> provider, model |-> m,
     status_code |-> status, latency_ms |-> latency, request_id |-> request_id]

\* BaseProvider._parse_chat_response
_parse_chat_response(v, m, http_resp) ==
    LET data == http_resp.data
        text == _extract_text(v, m, data)
    IN  IF ~text.ok
        THEN [ok |-> FALSE, hooks |-> << "_extract_text" >>,
              steps |-> << "EXTRACT_FIELDS" >>, raised |-> text.raised]
        ELSE [ok |-> TRUE,
              hooks |-> << "_extract_text", "_extract_usage", "_extract_request_id" >>,
              steps |-> << "EXTRACT_FIELDS", "ASSEMBLE_RESPONSE" >>,
              returned |-> ChatResponse(text.text, data, _extract_usage(v, data), v, m,
                                        http_resp.status_code, http_resp.latency_ms,
                                        _extract_request_id(v, http_resp))]


\* ---------------------------------------------------- message translation
\* (m.get("role") or "").strip().lower()
NormRole(msg) == LowerStr(Strip(IF msg.role = None THEN <<>> ELSE Val(msg.role)))

\* str(m.get("content") or "")
ContentStr(msg) == IF Truthy(msg.content) THEN Val(msg.content) ELSE ""

\* an error text that leaves the role out
UnsupportedRole_anonymous(role) ==
    [type |-> "ValueError", what |-> "Unsupported role", role |-> <<>>]

\* ValueError(f"Unsupported role '{role}'. Use 'user' or 'model'.")
UnsupportedRole(role) ==
    [type |-> "ValueError", what |-> "Unsupported role", role |-> role]

\* a translation that writes the model role as "assistant" for every vendor
VendorMessage_assistant(v, msg) ==
    IF v = "gemini"
    THEN [role |-> IF NormRole(msg) = R_user THEN R_user ELSE R_assistant,
          parts |-> << [text |-> ContentStr(msg)] >>]
    ELSE [role |-> IF NormRole(msg) = R_user THEN R_user ELSE R_assistant,
          content |-> ContentStr(msg)]

\* the vendor's form of one message whose normalised role is user or model
VendorMessage(v, msg) ==
    IF v = "gemini"
    THEN [role |-> NormRole(msg), parts |-> << [text |-> ContentStr(msg)] >>]
    ELSE [role |-> IF NormRole(msg) = R_user THEN R_user ELSE R_assistant,
          content |-> ContentStr(msg)]

\* _convert_messages without the role check: every role but user is sent as
\* the vendor's model role
RECURSIVE convert_messages_unchecked(_, _)
convert_messages_unchecked(v, messages) ==
    IF messages = <<>> THEN [ok |-> TRUE, out |-> <<>>]
    ELSE LET msg == Head(messages)
             role == IF NormRole(msg) = R_user THEN R_user
                     ELSE IF v = "gemini" THEN R_model ELSE R_assistant
             rest == convert_messages_unchecked(v, Tail(messages))
         IN  [ok |-> TRUE,
              out |-> << IF v = "gemini"
                         THEN [role |-> role, parts |-> << [text |-> ContentStr(msg)] >>]
                         ELSE [role |-> role, content |-> ContentStr(msg)] >>
                      \o rest.out]

\* the loop of _convert_messages: the first unsupported role raises
RECURSIVE _convert_messages(_, _)
_convert_messages(v, messages) ==
    IF messages = <<>> THEN [ok |-> TRUE, out |-> <<>>]
    ELSE LET msg == Head(messages)
             rest == _convert_messages(v, Tail(messages))
         IN  IF NormRole(msg) \notin {R_user, R_model}
             THEN Raise(UnsupportedRole(NormRole(msg)))
             ELSE IF ~rest.ok THEN rest
             ELSE [ok |-> TRUE, out |-> << VendorMessage(v, msg) >> \o rest.out]

\* ------------------------------------------------------------------ config
\* the vendor's name of each canonical generation option
VendorField(v, opt) ==
    CASE opt = "temperature" -> "temperature"
      [] opt = "top_p" -> IF v = "gemini" THEN "topP" ELSE "top_p"
      [] opt = "max_tokens" -> IF v = "gemini" THEN "maxOutputTokens" ELSE "max_tokens"
      [] opt = "stop" ->
            CASE v = "openai" -> "stop"
              [] v = "anthropic" -> "stop_sequences"
              [] v = "gemini" -> "stopSequences"

Options == << "temperature", "top_p", "max_tokens", "stop" >>

\* cfg after the "if <option> is not None" assignments, in source order
RECURSIVE StandardCfg(_, _, _)
StandardCfg(v, args, i) ==
    IF i = 0 THEN EmptyDict
    ELSE LET prev == StandardCfg(v, args, i - 1)
             opt == Options[i]
         IN  IF args[opt] # None
             THEN DictUpdate(prev, VendorField(v, opt) :> Val(args[opt]))
             ELSE prev

\* custom is [kind |-> "none"], [kind |-> "dict", d |-> ...] or, for a value
\* that is not a dict, [kind |-> "other"]
UnsupportedCustom(v, unknown) ==
    [type |-> "ValueError", what |-> "Unsupported custom parameters",
     vendor |-> display_name(v), keys |-> unknown,
     supported |-> SUPPORTED_CUSTOM_KEYS(v)]

\* config that replaces the stored options by those of the call
ConfigResult_overwrite(v, old, args) ==
    LET cfg == StandardCfg(v, args, Len(Options))
        custom == args.custom
        unknown == (DOMAIN custom.d) \ SUPPORTED_CUSTOM_KEYS(v)
    IN  IF custom.kind = "none" THEN [ok |-> TRUE, config |-> cfg]
        ELSE IF custom.kind # "dict"
        THEN Raise([type |-> "TypeError", what |-> "custom must be a dict[str, Any]"])
        ELSE IF unknown # {} THEN Raise(UnsupportedCustom(v, unknown))
        ELSE [ok |-> TRUE, config |-> DictUpdate(cfg, custom.d)]

\* config that stores custom without testing its keys
ConfigResult_unvalidated(v, old, args) ==
    LET cfg == StandardCfg(v, args, Len(Options))
        custom == args.custom
    IN  IF custom.kind = "none" THEN [ok |-> TRUE, config |-> DictUpdate(old, cfg)]
        ELSE IF custom.kind # "dict"
        THEN Raise([type |-> "TypeError", what |-> "custom must be a dict[str, Any]"])
        ELSE [ok |-> TRUE, config |-> DictUpdate(old, DictUpdate(cfg, custom.d))]

ConfigResult(v, old, args) ==
    LET cfg == StandardCfg(v, args, Len(Options))
        custom == args.custom
        unknown == (DOMAIN custom.d) \ SUPPORTED_CUSTOM_KEYS(v)
    IN  IF custom.kind = "none" THEN [ok |-> TRUE, config |-> DictUpdate(old, cfg)]
        ELSE IF custom.kind # "dict"
        THEN Raise([type |-> "TypeError", what |-> "custom must be a dict[str, Any]"])
        ELSE IF unknown # {} THEN Raise(UnsupportedCustom(v, unknown))
        ELSE [ok |-> TRUE, config |-> DictUpdate(old, DictUpdate(cfg, custom.d))]

\* config that stores the standard options before it looks at custom
Config_update_first(args) ==
    /\ phase = "ready"
    /\ \E r \in {ConfigResult(name, _config, args)} :
           /\ _config' = IF r.ok THEN r.config
                         ELSE DictUpdate(_config, StandardCfg(name, args, Len(Options)))
           /\ last' = [op |-> "config", args |-> args, before |-> _config,
                       posts |-> 0,
                       raised |-> IF r.ok THEN None ELSE Some(r.raised)]
    /\ UNCHANGED << env, phase, name, model, api_key, _url, _headers,
                    _system_prompt, _http >>

\* provider.config(temperature=, top_p=, max_tokens=, stop=, custom=)
Config(args) ==
    /\ phase = "ready"
    /\ \E r \in {ConfigResult(name, _config, args)} :
           /\ _config' = IF r.ok THEN r.config ELSE _config
           /\ last' = [op |-> "config", args |-> args, before |-> _config,
                       posts |-> 0,
                       raised |-> IF r.ok THEN None ELSE Some(r.raised)]
    /\ UNCHANGED << env, phase, name, model, api_key, _url, _headers,
                    _system_prompt, _http >>

\* system_prompt that keeps the first text it was given
SystemPrompt_first_wins(text) ==
    /\ phase = "ready"
    /\ _system_prompt' = IF _system_prompt = None THEN Some(text) ELSE _system_prompt
    /\ last' = [op |-> "system_prompt", text |-> text, posts |-> 0, raised |-> None]
    /\ UNCHANGED << env, phase, name, model, api_key, _url, _headers, _config, _http >>

\* provider.system_prompt(text)
SystemPrompt(text) ==
    /\ phase = "ready"
    /\ _system_prompt' = Some(text)
    /\ last' = [op |-> "system_prompt", text |-> text, posts |-> 0, raised |-> None]
    /\ UNCHANGED << env, phase, name, model, api_key, _url, _headers, _config, _http >>

\* -------------------------------------------------------------------- chat
SystemMessage(text) == [role |-> R_system, content |-> text]

OpenAI_payload(m, cfg, sp, converted) ==
    LET openai_messages == IF sp # None THEN << SystemMessage(Val(sp)) >> \o converted
                           ELSE converted
        payload == ("model" :> m) @@ ("messages" :> openai_messages)
    IN  IF DOMAIN cfg # {} THEN DictUpdate(payload, cfg) ELSE payload

\* a payload whose max_tokens is the default whatever was configured
Anthropic_payload_default_always(m, cfg, sp, converted) ==
    LET cfg2 == DictUpdate(cfg, "max_tokens" :> DEFAULT_MAX_TOKENS)
        payload == DictUpdate(("model" :> m) @@ ("messages" :> converted), cfg2)
    IN  IF sp # None THEN DictUpdate(payload, "system" :> Val(sp)) ELSE payload

Anthropic_payload(m, cfg, sp, converted) ==
    LET cfg2 == IF "max_tokens" \in DOMAIN cfg THEN cfg
                ELSE DictUpdate(cfg, "max_tokens" :> DEFAULT_MAX_TOKENS)
        payload == DictUpdate(("model" :> m) @@ ("messages" :> converted), cfg2)
    IN  IF sp # None THEN DictUpdate(payload, "system" :> Val(sp)) ELSE payload

Gemini_payload(m, cfg, sp, converted) ==
    LET p0 == ("contents" :> converted)
        p1 == IF sp # None
              THEN DictUpdate(p0, "systemInstruction" :> [parts |-> << [text |-> Val(sp)] >>])
              ELSE p0
    IN  IF DOMAIN cfg # {} THEN DictUpdate(p1, "generationConfig" :> cfg) ELSE p1

BuildPayload(v, m, cfg, sp, converted) ==
    CASE v = "openai" -> OpenAI_payload(m, cfg, sp, converted)
      [] v = "anthropic" -> Anthropic_payload(m, cfg, sp, converted)
      [] v = "gemini" -> Gemini_payload(m, cfg, sp, converted)

\* The whole of provider.chat(messages=...): translate, build the payload,
\* send it once, map the outcome.  o is what the network does with the post.
ChatResult(v, m, cfg, sp, url, headers, messages, o) ==
    LET conv == _convert_messages(v, messages)
        payload == BuildPayload(v, m, cfg, sp, conv.out)
        posted == HTTPClient_post(o)
        got == _get_response(v, m, posted)
        parsed == _parse_chat_response(v, m, got.http_resp)
    IN  IF ~conv.ok
        THEN [posts |-> <<>>, post_result |-> None, hooks |-> <<>>, steps |-> <<>>,
              raised |-> Some(conv.raised), returned |-> None]
        ELSE LET sent == << [url |-> url, headers |-> headers, payload |-> payload] >>
             IN  IF ~got.ok
                 THEN [posts |-> sent, post_result |-> Some(posted), hooks |-> got.hooks,
                       steps |-> << "BUILD_PAYLOAD", "SEND" >> \o got.steps,
                       raised |-> Some(got.raised), returned |-> None]
                 ELSE [posts |-> sent, post_result |-> Some(posted),
                       hooks |-> got.hooks \o parsed.hooks,
                       steps |-> << "BUILD_PAYLOAD", "SEND" >> \o got.steps \o parsed.steps,
                       raised |-> IF parsed.ok THEN None ELSE Some(parsed.raised),
                       returned |-> IF parsed.ok THEN Some(parsed.returned) ELSE None]

\* a chat that works on the adapter's and the caller's own objects: the
\* default max_tokens is set in the stored options and the system message is
\* inserted into the list the caller passed
Chat_in_place(messages, o) ==
    /\ phase = "ready"
    /\ _http = "open"
    /\ \E r \in {ChatResult(name, model, _config, _system_prompt, Val(_url),
                            Val(_headers), messages, o)} :
           last' = [op |-> "chat", messages |-> messages, outcome |-> o,
                    posts |-> Len(r.posts), sent |-> r.posts,
                    post_result |-> r.post_result, hooks |-> r.hooks,
                    steps |-> r.steps, raised |-> r.raised, returned |-> r.returned,
                    messages_after |->
                        IF name = "openai" /\ _system_prompt # None /\ Len(r.posts) = 1
                        THEN << [role |-> Some(R_system), content |-> _system_prompt] >>
                             \o messages
                        ELSE messages]
    /\ _config' = IF name = "anthropic" /\ _convert_messages(name, messages).ok
                  THEN DictUpdate(("max_tokens" :> DEFAULT_MAX_TOKENS), _config)
                  ELSE _config
    /\ UNCHANGED << env, phase, name, model, api_key, _url, _headers,
                    _system_prompt, _http >>

\* provider.chat(messages=...) on an adapter whose pool is open (what httpx
\* does with a closed client is not code of the repository).  messages_after
\* is the caller's list when the call is over.
Chat(messages, o) ==
    /\ phase = "ready"
    /\ _http = "open"
    /\ \E r \in {ChatResult(name, model, _config, _system_prompt, Val(_url),
                            Val(_headers), messages, o)} :
           last' = [op |-> "chat", messages |-> messages, outcome |-> o,
                    posts |-> Len(r.posts), sent |-> r.posts,
                    post_result |-> r.post_result, hooks |-> r.hooks,
                    steps |-> r.steps, raised |-> r.raised, returned |-> r.returned,
                    messages_after |-> messages]
    /\ UNCHANGED << env, phase, name, model, api_key, _url, _headers, _config,
                    _system_prompt, _http >>


\* provider.close(): self._http.close()
Close ==
    /\ phase = "ready"
    /\ _http' = "closed"
    /\ last' = [op |-> "close", posts |-> 0, raised |-> None]
    /\ UNCHANGED << env, phase, name, model, api_key, _url, _headers, _config,
                    _system_prompt >>

\* ----------------------------------------------------------------- gateway
\* The gateway class of client.py, LLMClient.  Provider and model names are
\* sequences of one-character strings, so that strip() and lower() are
\* computed.
P_openai == <<"o", "p", "e", "n", "a", "i">>
P_gemini == <<"g", "e", "m", "i", "n", "i">>
P_anthropic == <<"a", "n", "t", "h", "r", "o", "p", "i", "c">>
P_OpenAI_padded == <<" ", " ", "O", "p", "e", "n", "A", "I", " ", " ">>
P_cohere == <<"c", "o", "h", "e", "r", "e">>
GM_gpt4 == <<"g", "p", "t", "-", "4">>
GM_blank == <<" ">>

\* LLMClient.ProvidersClient
ProvidersClient == (P_gemini :> "GeminiProvider") @@ (P_openai :> "OpenAIProvider")

\* the keyword parameters of the __init__ of each class ProvidersClient names,
\* and those among them without a default
InitParams(cls) == {"model", "api_key", "timeout"}
InitRequired(cls) ==
    IF cls = "OpenAIProvider" THEN {"model", "timeout"} ELSE {"model", "api_key", "timeout"}

\* provider_cls(**kwargs): the binding of the keyword arguments
CallInit(cls, kwargs) ==
    IF ~(kwargs \subseteq InitParams(cls))
    THEN Raise([type |-> "TypeError", what |-> "unexpected keyword argument",
                names |-> kwargs \ InitParams(cls)])
    ELSE IF ~(InitRequired(cls) \subseteq kwargs)
    THEN Raise([type |-> "TypeError", what |-> "missing keyword argument",
                names |-> InitRequired(cls) \ kwargs])
    ELSE [ok |-> TRUE, cls |-> cls]

\* LLMClient.__init__(provider=, model=, api_key=)
LLMClient_init(provider, mdl, key) ==
    LET self_provider == LowerStr(Strip(provider))
        self_model == Strip(mdl)
    IN  IF self_provider = <<>>
        THEN Raise([type |-> "ValueError", what |-> "provider must be a non-empty string"])
        ELSE IF self_model = <<>>
        THEN Raise([type |-> "ValueError", what |-> "model must be a non-empty string"])
        ELSE IF self_provider \notin DOMAIN ProvidersClient
        THEN Raise([type |-> "ProviderNotSupportedError", provider |-> self_provider,
                    supported |-> DOMAIN ProvidersClient])
        ELSE LET backend == CallInit(ProvidersClient[self_provider],
                                     {"api_key", "base_url", "timeout"})
             IN  IF ~backend.ok THEN backend
                 ELSE IF key = None \/ Val(key) = ""
                 THEN Raise([type |-> "MissingAPIKeyError", provider |-> self_provider])
                 ELSE [ok |-> TRUE,
                       self |-> [provider |-> self_provider, model |-> self_model,
                                 _backend |-> backend.cls]]

\* the loop of _normalize_messages over messages[i..]: role and content are
\* stripped, and the first empty one raises
RECURSIVE NormalizeLoop(_, _)
NormalizeLoop(messages, i) ==
    IF i > Len(messages) THEN [ok |-> TRUE, out |-> <<>>]
    ELSE LET m == messages[i]
             role == Strip(IF m.role = None THEN <<>> ELSE Val(m.role))
             content == StripStr(IF Truthy(m.content) THEN Val(m.content) ELSE "")
             rest == NormalizeLoop(messages, i + 1)
         IN  IF role = <<>>
             THEN Raise([type |-> "ValueError", what |-> "role must be non-empty",
                         index |-> i - 1])
             ELSE IF content = ""
             THEN Raise([type |-> "ValueError", what |-> "content must be non-empty",
                         index |-> i - 1])
             ELSE IF ~rest.ok THEN rest
             ELSE [ok |-> TRUE,
                   out |-> << [role |-> Some(role), content |-> Some(content)] >> \o rest.out]

\* LLMClient._normalize_messages(prompt=, messages=, system=)
_normalize_messages(prompt, messages, system) ==
    LET no_messages == messages = None \/ Val(messages) = <<>>
        sys == IF Truthy(system)
               THEN << [role |-> Some(R_system), content |-> system] >> ELSE <<>>
    IN  IF prompt = None /\ no_messages
        THEN Raise([type |-> "ValueError",
                    what |-> "Provide either prompt=... or messages=[...]"])
        ELSE IF prompt # None /\ ~no_messages
        THEN Raise([type |-> "ValueError",
                    what |-> "Provide only one of prompt=... or messages=[...], not both"])
        ELSE IF prompt # None
        THEN [ok |-> TRUE, out |-> sys \o << [role |-> Some(R_user), content |-> prompt] >>]
        ELSE LET loop == NormalizeLoop(Val(messages), 1)
             IN  IF ~loop.ok THEN loop ELSE [ok |-> TRUE, out |-> sys \o loop.out]

\* the attributes class LLMClient defines
LLMClient_attributes == {"ProvidersClient", "__init__", "chat", "_normalize_messages"}

\* the keyword parameters of chat of each class ProvidersClient names
ChatParams(cls) ==
    IF cls = "OpenAIProvider" THEN {"messages"} ELSE {"model", "messages", "params"}

\* what one use of the gateway did: the error raised, the adapter classes
\* instantiated, the calls made on the adapter, the adapters closed, the value
\* returned
Outcome(raised, created, handed, returned) ==
    [raised |-> raised, created |-> created, handed |-> handed, closed |-> <<>>,
     returned |-> returned]

\* one use of the gateway: g = LLMClient(provider=, model=, api_key=) followed
\* by one call on g (or a with block around g)
LLMClient_call(provider, mdl, key, call) ==
    LET init == LLMClient_init(provider, mdl, key)
    IN  IF ~init.ok THEN Outcome(Some(init.raised), <<>>, <<>>, None)
        ELSE IF call.method = "with"
        THEN Outcome(Some([type |-> "TypeError",
                           what |-> "no context manager protocol"]),
                     << init.self._backend >>, <<>>, None)
        ELSE IF call.method \notin LLMClient_attributes
        THEN Outcome(Some([type |-> "AttributeError", attribute |-> call.method]),
                     << init.self._backend >>, <<>>, None)
        ELSE LET normalized == _normalize_messages(call.prompt, call.messages, call.system)
             IN  IF ~normalized.ok
                 THEN Outcome(Some(normalized.raised), << init.self._backend >>, <<>>, None)
                 ELSE IF {"model", "messages", "params"} \subseteq ChatParams(init.self._backend)
                 THEN Outcome(None, << init.self._backend >>,
                              << [model |-> init.self.model, messages |-> normalized.out] >>,
                              Some("LLMResponse"))
                 ELSE Outcome(Some([type |-> "TypeError",
                                    what |-> "unexpected keyword argument"]),
                              << init.self._backend >>, <<>>, None)

LLMClient_use(provider, mdl, key, call) ==
    /\ \E r \in {LLMClient_call(provider, mdl, key, call)} :
           last' = [op |-> "gateway", provider |-> provider, model |-> mdl,
                    api_key |-> key, call |-> call, posts |-> 0, raised |-> r.raised,
                    created |-> r.created, handed |-> r.handed, closed |-> r.closed,
                    returned |-> r.returned]
    /\ UNCHANGED << env, phase, adapter >>

\* LLMClient._normalize_messages is a static method: it runs without a gateway
LLMClient_normalize_messages(prompt, messages, system) ==
    /\ \E r \in {_normalize_messages(prompt, messages, system)} :
           last' = [op |-> "normalize", prompt |-> prompt, messages |-> messages,
                    system |-> system, posts |-> 0,
                    raised |-> IF r.ok THEN None ELSE Some(r.raised),
                    out |-> IF r.ok THEN Some(r.out) ELSE None]
    /\ UNCHANGED << env, phase, adapter >>


\* ------------------------------------------------------------------ inputs
Models == {"model-a", "model-b"}
KeyArgs == {None, Some(DefaultApiKey), Some(""), Some("sk-explicit")}
Prompts == {"S", "T", ""}

Msg(role, content) == [role |-> role, content |-> content]
UserX == Msg(Some(R_user), Some("X"))
ModelY == Msg(Some(R_model), Some("Y"))
SystemZ == Msg(Some(R_system), Some("Z"))

MessageSamples ==
    {UserX, ModelY, SystemZ,
     Msg(Some(R_User_padded), Some("X")),
     Msg(Some(R_Banana), Some("X")),
     Msg(None, Some("X")),
     Msg(Some(R_user), Some("")),
     Msg(Some(R_MODEL), None)}

SeqsUpTo(S, n) == UNION { [1..k -> S] : k \in 0..n }

MessageLists == SeqsUpTo(MessageSamples, MaxMsgs)

\* a few message lists, for the runs that vary something else
FewMessages == {<< UserX >>, << UserX, ModelY >>, << UserX, SystemZ >>}

NoCustom == [kind |-> "none"]
CustomDict(d) == [kind |-> "dict", d |-> d]

Args(temperature, top_p, max_tokens, stop, custom) ==
    [temperature |-> temperature, top_p |-> top_p, max_tokens |-> max_tokens,
     stop |-> stop, custom |-> custom]

ConfigArgs ==
    {Args(None, None, None, None, NoCustom),
     Args(Some(1), None, None, None, NoCustom),
     Args(Some(2), None, None, None, NoCustom),
     Args(None, Some(9), None, None, NoCustom),
     Args(None, None, Some(100), None, NoCustom),
     Args(None, None, Some(0), None, NoCustom),
     Args(None, None, None, Some(<< "END" >>), NoCustom),
     Args(Some(0), Some(9), Some(100), Some(<<>>), NoCustom),
     Args(None, None, None, None, CustomDict(EmptyDict)),
     Args(None, None, None, None, CustomDict("seed" :> 7)),
     Args(None, None, None, None, CustomDict("top_k" :> 7)),
     Args(None, None, None, None, CustomDict("topK" :> 7)),
     Args(None, None, None, Some(<< "END" >>), CustomDict("stop_sequences" :> << "C" >>)),
     Args(Some(1), None, None, None, CustomDict("bogus" :> 1)),
     Args(None, Some(9), None, None,
          CustomDict(("seed" :> 7) @@ ("top_k" :> 7) @@ ("topK" :> 7) @@ ("bogus" :> 1))),
     Args(None, None, Some(100), None, [kind |-> "other"])}

Bodies ==
    {B_plain, B_array, B_err_full, B_err_nomsg, B_err_google, B_err_rid, B_msg,
     B_msg_int, B_other, B_err_str, B_empty, B_choices_str, B_choices_null,
     B_choices_empty, B_choices, B_content_str, B_content_empty, B_content,
     B_cand_str, B_cand_empty, B_cand_null, B_cand,
     U_none, U_str, U_empty, U_full, U_zero, U_partial, U_nonint,
     T_multi, T_odd}
Statuses == {200, 399, 400, 500}
HeaderSamples ==
    {EmptyDict, "x-request-id" :> "rid-x", "request-id" :> " rid-pad ", "request-id" :> ""}

Response(status, text, headers) ==
    [status_code |-> status, text |-> text, headers |-> headers]

Responded(resp, t0, t1) == [kind |-> "response", resp |-> resp, t0 |-> t0, t1 |-> t1]
TimedOut == [kind |-> "timeout"]
NetworkDown == [kind |-> "network"]

\* every body under every status, and some of them again with headers and a
\* measurable delay
Outcomes ==
    {TimedOut, NetworkDown}
    \cup { Responded(Response(st, b, EmptyDict), 0, 0) : st \in Statuses, b \in Bodies }
    \cup { Responded(Response(st, b, h), 3, 5) :
             st \in {200, 400}, b \in {B_plain, B_choices, B_err_rid, B_cand},
             h \in HeaderSamples }

\* a few outcomes, for the runs that vary something else
FewOutcomes ==
    {TimedOut,
     Responded(Response(200, B_choices, EmptyDict), 0, 0),
     Responded(Response(200, B_content, EmptyDict), 0, 0),
     Responded(Response(200, B_cand, EmptyDict), 0, 0),
     Responded(Response(400, B_err_full, EmptyDict), 0, 0)}

Init ==
    /\ env \in Environments
    /\ phase = "new"
    /\ name = ""
    /\ model = ""
    /\ api_key = None
    /\ _url = None
    /\ _headers = None
    /\ _config = EmptyDict
    /\ _system_prompt = None
    /\ _http = "none"
    /\ last = [op |-> "none"]

TwoConfigs ==
    {Args(Some(2), None, None, None, NoCustom), Args(None, None, Some(100), None, NoCustom)}
TwoOutcomes == {TimedOut, Responded(Response(200, B_choices, EmptyDict), 0, 0)}
TwoMessages == {<< UserX >>, << UserX, SystemZ >>}

\* ---------------------------------------------------------- specifications
\* construction in full, from every environment, with a few chats
Next ==
    \/ \E v \in Vendors, m \in Models, k \in KeyArgs : Construct(v, m, k)
    \/ \E text \in Prompts : SystemPrompt(text)
    \/ \E args \in TwoConfigs : Config(args)
    \/ \E messages \in FewMessages, o \in FewOutcomes : Chat(messages, o)

Spec == Init /\ [][Next]_vars

InitOne == Init /\ env = EnvAll

\* configuration in full
NextCfg ==
    \/ \E v \in Vendors : Construct(v, "model-a", Some("sk-explicit"))
    \/ \E args \in ConfigArgs : Config(args)
    \/ SystemPrompt("S")
    \/ \E o \in TwoOutcomes : Chat(<< UserX >>, o)

SpecCfg == InitOne /\ [][NextCfg]_vars

\* every outcome of the transport
NextWire ==
    \/ \E v \in Vendors : Construct(v, "model-a", Some("sk-explicit"))
    \/ SystemPrompt("S")
    \/ \E messages \in TwoMessages, o \in Outcomes : Chat(messages, o)

SpecWire == InitOne /\ [][NextWire]_vars

\* every message list up to MaxMsgs
NextMsg ==
    \/ \E v \in Vendors : Construct(v, "model-a", Some("sk-explicit"))
    \/ SystemPrompt("S")
    \/ \E messages \in MessageLists, o \in TwoOutcomes :
          Chat(messages, o)

SpecMsg == InitOne /\ [][NextMsg]_vars

\* what callers give the gateway
ProviderNames == {P_openai, P_gemini, P_anthropic, P_OpenAI_padded, P_cohere, <<>>}
GatewayModels == {GM_gpt4, GM_blank}
GatewayKeys == {None, Some("test-key")}
MessageArgs ==
    {None, Some(<<>>), Some(<< UserX >>), Some(<< UserX, ModelY, UserX >>),
     Some(<< Msg(Some(R_User_padded), Some(" X ")) >>),
     Some(<< UserX, Msg(Some(R_user), Some("")) >>),
     Some(<< SystemZ, UserX >>),
     Some(<< Msg(None, Some("X")) >>)}
ChatCall(prompt, messages, system) ==
    [method |-> "chat", prompt |-> prompt, messages |-> messages, system |-> system]
GatewayCalls ==
    { ChatCall(p, m, None) : p \in {None, Some("Hello")}, m \in MessageArgs }
    \cup {ChatCall(Some("Hello"), None, Some("S"))}
    \cup {[method |-> "close"], [method |-> "with"],
          [method |-> "system_prompt", text |-> "S"],
          [method |-> "config", args |-> Args(Some(2), None, Some(100), None, NoCustom)]}

\* the gateway, with an adapter constructed and closed directly
NextGw ==
    \/ \E v \in Vendors : Construct(v, "model-a", Some("sk-explicit"))
    \/ Close
    \/ \E p \in ProviderNames, m \in GatewayModels, k \in GatewayKeys, c \in GatewayCalls :
          LLMClient_use(p, m, k, c)
    \/ \E p \in {None, Some("Hello"), Some("")}, m \in MessageArgs, sys \in {None, Some("S")} :
          LLMClient_normalize_messages(p, m, sys)

SpecGw == InitOne /\ [][NextGw]_vars

\* the keyword arguments callers give _get_chat_url
PathParams ==
    {EmptyDict, [other |-> "value"], [model |-> "model-b"], [custom_param |-> "x"]}

\* construction of every class, and URL building on the adapters constructed
\* BaseProvider.__init__ has no default for api_key: only the classes with
\* an __init__ of their own can be constructed without one.
NextCls ==
    \/ \E c \in Classes, m \in Models, k \in KeyArgs :
           /\ (k = None => BuildsUrl(c))
           /\ Construct(c, m, k)
    \/ \E path_params \in PathParams : GetChatUrl(path_params)

SpecCls == Init /\ [][NextCls]_vars


\* ------------------------------------------------------------------ claims
IsChat == last.op = "chat"
Raised(type) == last.raised # None /\ Val(last.raised).type = type

\* the role string a message carries, as the caller wrote it ("" when absent)
RawRole(msg) == IF msg.role = None THEN <<>> ELSE Val(msg.role)

\* trimming and lower-casing, stated apart from the adapter's own code
Canonical(r) ==
    LET IsBlank(c) == c \in {" ", "\t", "\n"}
        first == IF \E i \in 1..Len(r) : ~IsBlank(r[i])
                 THEN CHOOSE i \in 1..Len(r) :
                        ~IsBlank(r[i]) /\ \A j \in 1..(i - 1) : IsBlank(r[j])
                 ELSE Len(r) + 1
        lastc == IF \E i \in 1..Len(r) : ~IsBlank(r[i])
                 THEN CHOOSE i \in 1..Len(r) :
                        ~IsBlank(r[i]) /\ \A j \in (i + 1)..Len(r) : IsBlank(r[j])
                 ELSE Len(r)
        Small(c) == CASE c = "U" -> "u" [] c = "M" -> "m" [] c = "B" -> "b"
                      [] c = "S" -> "s" [] OTHER -> c
    IN  [i \in 1..(lastc - first + 1) |-> Small(r[first + i - 1])]

CanonicalRoles == {R_user, R_model}

\* the position of the first message whose role fails the test Bad
FirstWhere(messages, Bad(_)) ==
    CHOOSE i \in 1..Len(messages) :
        Bad(messages[i]) /\ \A j \in 1..(i - 1) : ~Bad(messages[j])

\* C1 as stated: a chat in which some message's role, as written, is other
\* than 'user' or 'model' fails with a ValueError naming an offending role and
\* posts nothing.
C1_AsStated ==
    (IsChat /\ \E i \in 1..Len(last.messages) :
                  RawRole(last.messages[i]) \notin CanonicalRoles)
    => /\ Raised("ValueError")
       /\ \E i \in 1..Len(last.messages) :
             /\ RawRole(last.messages[i]) \notin CanonicalRoles
             /\ Val(last.raised).role = RawRole(last.messages[i])
       /\ last.posts = 0

\* C1 amended: a chat in which some message's role, after trimming and
\* lower-casing, is other than 'user' or 'model' fails with a ValueError that
\* names the trimmed, lower-cased role of the first such message; nothing is
\* posted and no response is returned.  Every adapter, every position.
C1_RoleRejected ==
    LET Bad(msg) == Canonical(RawRole(msg)) \notin CanonicalRoles
    IN  (IsChat /\ \E i \in 1..Len(last.messages) : Bad(last.messages[i]))
        => /\ Raised("ValueError")
           /\ Val(last.raised).role
                 = Canonical(RawRole(last.messages[FirstWhere(last.messages, Bad)]))
           /\ last.posts = 0
           /\ last.returned = None

\* a chat whose second message carries the role 'system' was rejected unsent
C1_Witness ==
    /\ IsChat
    /\ Len(last.messages) = 2
    /\ last.messages[1] = UserX
    /\ last.messages[2] = SystemZ
    /\ Raised("ValueError")
    /\ last.posts = 0


\* equality of two decoded JSON values
JEq(a, b) == a.t = b.t /\ a = b

\* ---- the transport and the base contract
Sent == IsChat /\ last.posts = 1
Posted == Val(last.post_result)
Resp == last.outcome.resp
Returned == Val(last.returned)
Error == Val(last.raised)

StatusError == Sent /\ ~Posted.ok /\ Posted.raised.type = "HTTPStatusError"
Succeeded == Sent /\ Posted.ok

\* the message the claim expects of a status error with the given body
ExpectedDetail(text) ==
    LET d == JsonDecode(text)
        err == Get(d.val, "error")
        top == Get(d.val, "message")
    IN  IF ~d.ok THEN JStr(text)
        ELSE IF ~IsDict(d.val) THEN JStr(text)
        ELSE IF IsDict(err)
        THEN (IF IsStr(Get(err, "message")) /\ Get(err, "message").v # ""
              THEN Get(err, "message") ELSE JStr(text))
        ELSE IF IsStr(top) THEN top
        ELSE JStr(text)

\* C2: when the transport reports a status error, chat fails with
\* ProviderAPIError whose status_code is the response's status and whose detail
\* is the vendor's decoded error message when the body holds one and the raw
\* body text otherwise (not JSON, not an object, or an object with neither an
\* 'error' object nor a string 'message').
C2_StatusErrorDetail ==
    StatusError
    => /\ Raised("ProviderAPIError")
       /\ Error.status_code = Resp.status_code
       /\ JEq(Error.detail, ExpectedDetail(Resp.text))

\* C3: a successful response whose body is not JSON makes chat fail with
\* ProviderParseError carrying the raw text and the status code; one whose
\* JSON is not an object makes chat fail with ProviderParseError too; neither
\* returns a ChatResponse nor runs an extraction hook.
C3_ParseErrors ==
    LET d == JsonDecode(Resp.text)
    IN  /\ (Succeeded /\ ~d.ok)
           => /\ Raised("ProviderParseError")
              /\ JEq(Error.raw, JStr(Resp.text))
              /\ Error.status_code = Some(Resp.status_code)
              /\ last.returned = None
              /\ last.hooks = <<>>
        /\ (Succeeded /\ d.ok /\ ~IsDict(d.val))
           => /\ Raised("ProviderParseError")
              /\ Error.status_code = Some(Resp.status_code)
              /\ last.returned = None
              /\ last.hooks = <<>>

\* a 200 response that is plain text ended in a parse error
C3_Witness ==
    /\ Succeeded
    /\ Resp.status_code = 200
    /\ Resp.text = B_plain
    /\ Raised("ProviderParseError")
    /\ JEq(Error.raw, JStr(B_plain))

\* the top-level field each vendor's text extraction depends on
TextField(v) ==
    CASE v = "openai" -> "choices"
      [] v = "anthropic" -> "content"
      [] v = "gemini" -> "candidates"

SucceededWithObject ==
    Succeeded /\ JsonDecode(Resp.text).ok /\ IsDict(JsonDecode(Resp.text).val)

Body == JsonDecode(Resp.text).val.v

EmptyText == last.raised = None /\ last.returned # None /\ Returned.text = ""

\* C4 as stated: for each adapter, a successful object response fails with
\* ProviderParseError when the field is absent or is not a list, and yields
\* the empty string without error when the field is an empty list.
C4_AsStated ==
    SucceededWithObject
    => LET f == TextField(name)
       IN  /\ (f \notin DOMAIN Body \/ ~IsList(Body[f])) => Raised("ProviderParseError")
           /\ (f \in DOMAIN Body /\ IsList(Body[f]) /\ Body[f].v = <<>>) => EmptyText

\* C4 amended: OpenAI ('choices') and Anthropic ('content') fail with
\* ProviderParseError when the field is absent or is not a list; Gemini fails
\* with ProviderParseError only when 'candidates' is present, not null and not
\* a list, and yields the empty string without error when 'candidates' is
\* absent or null; all three yield the empty string without error when the
\* field is an empty list.
C4_TextFieldShape ==
    SucceededWithObject
    => LET f == TextField(name)
           absent == f \notin DOMAIN Body \/ IsNull(Body[f])
       IN  /\ (name # "gemini" /\ (absent \/ ~IsList(Body[f])))
              => Raised("ProviderParseError")
           /\ (name = "gemini" /\ ~absent /\ ~IsList(Body[f]))
              => Raised("ProviderParseError")
           /\ (name = "gemini" /\ absent) => EmptyText
           /\ (~absent /\ IsList(Body[f]) /\ Body[f].v = <<>>) => EmptyText

\* Gemini answered an object without 'candidates' with the empty text
C4_Witness ==
    /\ Succeeded
    /\ name = "gemini"
    /\ Resp.text = B_empty
    /\ EmptyText

\* C5: post returns the response with a non-negative latency whenever the
\* status is below 400, whatever the body; it fails with HTTPTimeoutError on a
\* timeout, HTTPNetworkError on another request failure, and HTTPStatusError
\* carrying the raw response whenever the status is 400 or above; one POST.
C5_TransportPost ==
    Sent
    => /\ (last.outcome.kind = "timeout")
          => ~Posted.ok /\ Posted.raised.type = "HTTPTimeoutError"
       /\ (last.outcome.kind = "network")
          => ~Posted.ok /\ Posted.raised.type = "HTTPNetworkError"
       /\ (last.outcome.kind = "response" /\ Resp.status_code < 400)
          => Posted.ok /\ Posted.resp = Resp /\ Posted.latency_ms >= 0
       /\ (last.outcome.kind = "response" /\ Resp.status_code >= 400)
          => /\ ~Posted.ok
             /\ Posted.raised.type = "HTTPStatusError"
             /\ Posted.raised.response = Resp

\* a response with status exactly 400 was raised as HTTPStatusError
C5_Witness ==
    /\ Sent
    /\ last.outcome.kind = "response"
    /\ Resp.status_code = 400
    /\ ~Posted.ok
    /\ Posted.raised.type = "HTTPStatusError"

\* the display name the documentation gives each vendor
VendorTitle(v) ==
    CASE v = "openai" -> "OpenAI"
      [] v = "anthropic" -> "Anthropic"
      [] v = "gemini" -> "Gemini"

\* C6: when the post of a chat call fails with a timeout or a network error,
\* chat fails with ProviderHTTPError carrying the adapter's provider name,
\* display name and model; one post is made and no response is returned.
C6_TransportFailure ==
    (Sent /\ last.outcome.kind \in {"timeout", "network"})
    => /\ Raised("ProviderHTTPError")
       /\ Error.provider = name
       /\ Error.display_name = VendorTitle(name)
       /\ Error.model = model
       /\ last.posts = 1
       /\ last.returned = None

\* a network failure surfaced as ProviderHTTPError after one post
C6_Witness ==
    /\ Sent
    /\ last.outcome.kind = "network"
    /\ Raised("ProviderHTTPError")
    /\ last.posts = 1


\* ---- configuration
IsConfig == last.op = "config"
CustomOf(args) == IF args.custom.kind = "dict" THEN args.custom.d ELSE EmptyDict

\* the vendor fields a config call specifies, each with the value it gives;
\* an entry of custom stands for the field it names
SpecifiedBy(v, args) ==
    LET given == { o \in {"temperature", "top_p", "max_tokens", "stop"} : args[o] # None }
        custom == CustomOf(args)
        fields == { VendorField(v, o) : o \in given } \cup DOMAIN custom
    IN  [f \in fields |->
            IF f \in DOMAIN custom THEN custom[f]
            ELSE Val(args[CHOOSE o \in given : VendorField(v, o) = f])]

Payload == last.sent[1].payload

\* the stored options are in effect in the payload of the chat just sent
PayloadCarriesConfig ==
    IF name = "gemini"
    THEN IF DOMAIN _config = {} THEN "generationConfig" \notin DOMAIN Payload
         ELSE "generationConfig" \in DOMAIN Payload /\ Payload["generationConfig"] = _config
    ELSE \A f \in DOMAIN _config : f \in DOMAIN Payload /\ Payload[f] = _config[f]

\* C7: config merges: after an accepted config call every vendor field the
\* call specified holds the value given, every other field keeps its earlier
\* value and none is removed; the payload of a chat carries the stored fields.
C7_ConfigMerges ==
    /\ (IsConfig /\ last.raised = None)
       => LET given == SpecifiedBy(name, last.args)
          IN  /\ DOMAIN _config = (DOMAIN last.before) \cup (DOMAIN given)
              /\ \A f \in DOMAIN _config :
                    _config[f] = IF f \in DOMAIN given THEN given[f] ELSE last.before[f]
    /\ Sent => PayloadCarriesConfig

\* a chat was sent with temperature 2 and top_p 9, which no single config
\* call of the run sets together
C7_Witness ==
    /\ Sent
    /\ name = "openai"
    /\ "temperature" \in DOMAIN Payload /\ Payload["temperature"] = 2
    /\ "top_p" \in DOMAIN Payload /\ Payload["top_p"] = 9

\* C8: config(custom=...) with a key outside the adapter's allow-list fails at
\* once with a ValueError naming the offending keys and the vendor, posting
\* nothing; a custom mapping within the allow-list is accepted and its entries
\* are stored, and stored entries are in the payload of a chat.
C8_CustomAllowList ==
    /\ (IsConfig /\ last.args.custom.kind = "dict")
       => LET custom == last.args.custom.d
              unknown == (DOMAIN custom) \ SUPPORTED_CUSTOM_KEYS(name)
          IN  IF unknown # {}
              THEN /\ Raised("ValueError")
                   /\ Error.keys = unknown
                   /\ Error.vendor = VendorTitle(name)
                   /\ last.posts = 0
              ELSE /\ last.raised = None
                   /\ \A k \in DOMAIN custom : k \in DOMAIN _config /\ _config[k] = custom[k]
    /\ Sent => \A k \in (DOMAIN _config) \cap SUPPORTED_CUSTOM_KEYS(name) :
                  IF name = "gemini"
                  THEN Payload["generationConfig"][k] = _config[k]
                  ELSE Payload[k] = _config[k]

\* custom={"bogus": 1} was rejected by name
C8_Witness ==
    /\ IsConfig
    /\ last.args.custom.kind = "dict"
    /\ DOMAIN last.args.custom.d = {"bogus"}
    /\ Raised("ValueError")
    /\ Error.keys = {"bogus"}

\* ---- construction
IsConstruct == last.op = "init"

\* the environment variable the documentation names for each vendor
ExpectedEnvVar(v) ==
    CASE v = "openai" -> "OPENAI_API_KEY"
      [] v = "anthropic" -> "ANTHROPIC_API_KEY"
      [] v = "gemini" -> "GEMINI_API_KEY"

Unset(v) == env[ExpectedEnvVar(v)] = None \/ env[ExpectedEnvVar(v)] = Some("")

\* C9: constructing an adapter without a credential while the vendor's
\* environment variable is unset or empty fails with MissingAPIKeyError
\* carrying provider name, display name, model and a hint naming the variable;
\* no adapter results.
C9_MissingCredential ==
    (IsConstruct /\ last.given = None /\ Unset(name))
    => /\ Raised("MissingAPIKeyError")
       /\ Error.provider = name
       /\ Error.display_name = VendorTitle(name)
       /\ Error.model = model
       /\ \E i \in 1..Len(Error.suggestion) : Error.suggestion[i] = ExpectedEnvVar(name)
       /\ phase = "failed"

\* Gemini was constructed without a credential while only OPENAI_API_KEY is set
C9_Witness ==
    /\ IsConstruct
    /\ last.given = None
    /\ name = "gemini"
    /\ env = EnvOnlyOpenAI
    /\ Raised("MissingAPIKeyError")

\* the credential an adapter's headers carry
AuthValue(v, headers) ==
    CASE v = "openai" -> headers["Authorization"]
      [] v = "anthropic" -> headers["x-api-key"]
      [] v = "gemini" -> headers["x-goog-api-key"]

AuthFor(v, key) == IF v = "openai" THEN "Bearer " \o key ELSE key

\* C10 as stated: every explicit credential string becomes the adapter's
\* api_key and the auth header value, whatever the environment holds, and the
\* environment is read only when no credential was supplied.
C10_AsStated ==
    IsConstruct
    => /\ (last.given # None)
          => /\ phase = "ready"
             /\ api_key = last.given
             /\ AuthValue(name, Val(_headers)) = AuthFor(name, Val(last.given))
       /\ last.env_read => last.given = None

\* C10 amended: every explicit credential string other than the empty string
\* and the literal "default" becomes the adapter's api_key and the auth header
\* value, whatever the environment holds; the environment is read exactly when
\* the credential is omitted or is "default"; an explicit empty string fails
\* with MissingAPIKeyError.  The header built at construction is the one sent.
C10_ExplicitKeyWins ==
    /\ IsConstruct
       => /\ (last.given # None /\ Val(last.given) \notin {"", "default"})
             => /\ phase = "ready"
                /\ api_key = last.given
                /\ AuthValue(name, Val(_headers)) = AuthFor(name, Val(last.given))
          /\ last.env_read <=> (last.given = None \/ last.given = Some("default"))
          /\ (last.given = Some("")) => Raised("MissingAPIKeyError")
    /\ phase = "ready" => AuthValue(name, Val(_headers)) = AuthFor(name, Val(api_key))
    /\ Sent => last.sent[1].headers = Val(_headers)

\* an explicit key was taken although the environment holds another
C10_Witness ==
    /\ IsConstruct
    /\ last.given = Some("sk-explicit")
    /\ env = EnvAll
    /\ phase = "ready"
    /\ api_key = Some("sk-explicit")


\* ---- usage
\* the key under which each vendor reports token counts, and the names of
\* its prompt, completion and total counts
UsageKey(v) == IF v = "gemini" THEN "usageMetadata" ELSE "usage"
PromptKey(v) ==
    CASE v = "openai" -> "prompt_tokens"
      [] v = "anthropic" -> "input_tokens"
      [] v = "gemini" -> "promptTokenCount"
CompletionKey(v) ==
    CASE v = "openai" -> "completion_tokens"
      [] v = "anthropic" -> "output_tokens"
      [] v = "gemini" -> "candidatesTokenCount"
TotalKey(v) == IF v = "gemini" THEN "totalTokenCount" ELSE "total_tokens"

Field(obj, k) == IF k \in DOMAIN obj.v THEN obj.v[k] ELSE JNull
HasUsageObject == UsageKey(name) \in DOMAIN Body /\ Body[UsageKey(name)].t = "obj"
UsageObject == Body[UsageKey(name)]
ReturnedOk == SucceededWithObject /\ last.raised = None /\ last.returned # None

Has(x, k) == x.t = "obj" /\ k \in DOMAIN x.v
HasStr(x, k) == Has(x, k) /\ x.v[k].t = "str"
HasObj(x, k) == Has(x, k) /\ x.v[k].t = "obj"
HasList(x, k) == Has(x, k) /\ x.v[k].t = "list"

IsTextBlock(b) == HasStr(b, "type") /\ b.v["type"].v = "text" /\ HasStr(b, "text")
IsTextPart(p) == HasStr(p, "text")
TextOf(items) == [i \in 1..Len(items) |-> items[i].v["text"].v]

\* the text-bearing fragments of the first choice or candidate, in order
Fragments(v, data) ==
    CASE v = "openai" ->
            LET c0 == data.v["choices"].v[1]
            IN  IF HasObj(c0, "message") /\ HasStr(c0.v["message"], "content")
                THEN << c0.v["message"].v["content"].v >> ELSE <<>>
      [] v = "anthropic" -> TextOf(SelectSeq(data.v["content"].v, IsTextBlock))
      [] v = "gemini" ->
            LET c0 == data.v["candidates"].v[1]
            IN  IF HasObj(c0, "content") /\ HasList(c0.v["content"], "parts")
                THEN TextOf(SelectSeq(c0.v["content"].v["parts"].v, IsTextPart))
                ELSE <<>>

RECURSIVE Concat(_)
Concat(strings) == IF strings = <<>> THEN "" ELSE Head(strings) \o Concat(Tail(strings))

HasItems == HasList(JsonDecode(Resp.text).val, TextField(name)) /\ Body[TextField(name)].v # <<>>

\* C12: on a successful response with at least one choice, block or candidate
\* the text is the in-order concatenation of the text-bearing fragments of the
\* first one only: Anthropic's blocks of type 'text', the string 'text' of the
\* parts of Gemini's candidates[0], OpenAI's choices[0].message.content when
\* it is a string.
C12_TextConcatenation ==
    (SucceededWithObject /\ HasItems)
    => /\ last.raised = None
       /\ last.returned # None
       /\ Returned.text = Concat(Fragments(name, JsonDecode(Resp.text).val))

\* Anthropic joined "A" and "B" around a tool_use block
C12_Witness ==
    /\ ReturnedOk
    /\ name = "anthropic"
    /\ Resp.text = T_multi
    /\ Returned.text = "AB"


\* ---- translation
\* every message has exactly the role user or model, and a content string
PlainMessages(messages) ==
    \A i \in 1..Len(messages) :
        /\ messages[i].role \in {Some(<<"u", "s", "e", "r">>), Some(<<"m", "o", "d", "e", "l">>)}
        /\ messages[i].content # None

\* the translated messages in the payload: 'contents' for Gemini, 'messages'
\* for the others, without the leading system message OpenAI puts before them
\* when a system prompt is set
Translated ==
    CASE name = "gemini" -> Payload["contents"]
      [] name = "anthropic" -> Payload["messages"]
      [] name = "openai" ->
            IF _system_prompt # None THEN Tail(Payload["messages"]) ELSE Payload["messages"]

ExpectedTurn(v, msg) ==
    LET user == msg.role = Some(<<"u", "s", "e", "r">>)
    IN  IF v = "gemini"
        THEN [role |-> IF user THEN <<"u", "s", "e", "r">> ELSE <<"m", "o", "d", "e", "l">>,
              parts |-> << [text |-> Val(msg.content)] >>]
        ELSE [role |-> IF user THEN <<"u", "s", "e", "r">>
                       ELSE <<"a", "s", "s", "i", "s", "t", "a", "n", "t">>,
              content |-> Val(msg.content)]

\* C13: a chat whose messages all have role user or model is sent, and the
\* translated messages have the length and order of the input: user stays
\* user, model becomes assistant for OpenAI and Anthropic and stays model for
\* Gemini, and each content is carried unchanged (as 'content', or as
\* parts [{text}] for Gemini).
C13_Translation ==
    (IsChat /\ PlainMessages(last.messages))
    => /\ Sent
       /\ Len(Translated) = Len(last.messages)
       /\ \A i \in 1..Len(last.messages) :
             Translated[i] = ExpectedTurn(name, last.messages[i])

\* Gemini sent user X then model Y as two turns, the second with role model
C13_Witness ==
    /\ Sent
    /\ name = "gemini"
    /\ last.messages = << UserX, ModelY >>
    /\ Len(Payload["contents"]) = 2
    /\ Payload["contents"][2].role = <<"m", "o", "d", "e", "l">>


\* ---- system prompt
SystemRole == <<"s", "y", "s", "t", "e", "m">>
NoSystemTurn(turns) == \A i \in 1..Len(turns) : turns[i].role # SystemRole

\* the payload holds the system prompt sp once, in the vendor's place, or no
\* system entry at all when sp is None
CarriesSystem(v, payload, sp, messages) ==
    CASE v = "openai" ->
            IF sp # None
            THEN /\ Len(payload["messages"]) = Len(messages) + 1
                 /\ payload["messages"][1] = [role |-> SystemRole, content |-> Val(sp)]
                 /\ NoSystemTurn(Tail(payload["messages"]))
            ELSE NoSystemTurn(payload["messages"])
      [] v = "anthropic" ->
            /\ NoSystemTurn(payload["messages"])
            /\ IF sp # None
               THEN "system" \in DOMAIN payload /\ payload["system"] = Val(sp)
               ELSE "system" \notin DOMAIN payload
      [] v = "gemini" ->
            /\ NoSystemTurn(payload["contents"])
            /\ IF sp # None
               THEN /\ "systemInstruction" \in DOMAIN payload
                    /\ payload["systemInstruction"] = [parts |-> << [text |-> Val(sp)] >>]
               ELSE "systemInstruction" \notin DOMAIN payload

\* C14: the system prompt persists: system_prompt(t) stores t, config and chat
\* leave the stored prompt as it is, a new adapter has none, and every chat
\* that is sent carries the stored prompt exactly once in the vendor's place
\* (OpenAI: leading system message; Anthropic: 'system'; Gemini:
\* 'systemInstruction' = {parts: [{text: t}]}) and no system entry when none
\* was ever set.
C14_SystemPromptPersists ==
    [][ /\ (last'.op = "system_prompt") => _system_prompt' = Some(last'.text)
        /\ (last'.op \in {"chat", "config"}) => _system_prompt' = _system_prompt
        /\ (last'.op = "init") => _system_prompt' = None
        /\ (last'.op = "chat" /\ last'.posts = 1)
           => CarriesSystem(name, last'.sent[1].payload, _system_prompt, last'.messages)
      ]_vars

\* OpenAI sent a chat whose first message is the system prompt "T"
C14_Witness ==
    /\ Sent
    /\ name = "openai"
    /\ _system_prompt = Some("T")
    /\ Payload["messages"][1] = [role |-> SystemRole, content |-> "T"]
    /\ Len(Payload["messages"]) = Len(last.messages) + 1


\* ---- gateway
IsGateway == last.op = "gateway"
ProviderGiven == LowerStr(Strip(last.provider))
AdapterNames ==
    {<<"o", "p", "e", "n", "a", "i">>, <<"a", "n", "t", "h", "r", "o", "p", "i", "c">>,
     <<"g", "e", "m", "i", "n", "i">>}
AdapterClass(n) ==
    CASE n = <<"o", "p", "e", "n", "a", "i">> -> "OpenAIProvider"
      [] n = <<"a", "n", "t", "h", "r", "o", "p", "i", "c">> -> "AnthropicProvider"
      [] n = <<"g", "e", "m", "i", "n", "i">> -> "GeminiProvider"

\* a gateway for one of the three vendors, with a model and a credential
OnGateway ==
    /\ IsGateway
    /\ ProviderGiven \in AdapterNames
    /\ Strip(last.model) # <<>>
    /\ last.api_key # None

\* C15: gateway chat requires exactly one of prompt and messages: with neither
\* or with both it fails with a ValueError before any adapter or network
\* call; with only prompt it hands the adapter the one message
\* {role: user, content: prompt}; with only messages it hands the adapter
\* those messages in the same order and number.
C15_ExactlyOneOf ==
    (OnGateway /\ last.call.method = "chat" /\ last.call.system = None)
    => LET prompt == last.call.prompt
           messages == last.call.messages
       IN  IF (prompt = None) = (messages = None)
           THEN Raised("ValueError") /\ last.handed = <<>> /\ last.posts = 0
           ELSE /\ last.raised = None
                /\ Len(last.handed) = 1
                /\ IF prompt # None
                   THEN last.handed[1].messages
                            = << [role |-> Some(<<"u", "s", "e", "r">>), content |-> prompt] >>
                   ELSE /\ Len(last.handed[1].messages) = Len(Val(messages))
                        /\ \A i \in 1..Len(Val(messages)) :
                              Strip(Val(last.handed[1].messages[i].role))
                                  = Strip(Val(Val(messages)[i].role))

\* C16: gateway construction resolves the trimmed, lower-cased provider name:
\* 'openai', 'anthropic' and 'gemini' each yield an instance of the
\* corresponding adapter class; any other name fails with
\* ProviderNotSupportedError naming that provider, and no adapter is created.
C16_ProviderResolution ==
    (IsGateway /\ ProviderGiven # <<>> /\ Strip(last.model) # <<>> /\ last.api_key # None)
    => IF ProviderGiven \in AdapterNames
       THEN /\ last.created = << AdapterClass(ProviderGiven) >>
            /\ ~Raised("ProviderNotSupportedError")
            /\ ~Raised("TypeError")
       ELSE /\ Raised("ProviderNotSupportedError")
            /\ Error.provider = ProviderGiven
            /\ last.created = <<>>

\* C17: the gateway owns the adapter's lifetime: the adapter's close closes
\* the transport's pool; gateway.close() calls the adapter's close; a with
\* block around the gateway, left normally or through an exception, leaves
\* the adapter's close called exactly once.
C17_GatewayCloses ==
    /\ (last.op = "close") => _http = "closed"
    /\ (OnGateway /\ last.call.method \in {"close", "with"})
       => /\ last.raised = None
          /\ Len(last.closed) = 1

\* C18: gateway config(...) and system_prompt(text) each return the gateway
\* itself and forward their arguments unchanged to the adapter.
C18_GatewayChaining ==
    (OnGateway /\ last.call.method \in {"config", "system_prompt"})
    => /\ last.raised = None
       /\ last.returned = Some("self")
       /\ Len(last.handed) = 1
       /\ last.handed[1] = last.call


\* ------------------------------------------------- class identity fields
\* C19: constructing an adapter whose class leaves any of the five identity
\* fields (vendor name, display name, base URL, endpoint template, credential
\* env-var name) undefined fails with NotImplementedError, before the
\* credential is resolved and before a transport exists.
C19_IdentityFieldsChecked ==
    (IsConstruct /\ \E attr \in ClassAttributes : ~Defined(name, attr))
    => /\ Raised("NotImplementedError")
       /\ ~Defined(name, Error.attr)
       /\ phase = "failed"
       /\ ~last.env_read
       /\ api_key = None
       /\ _http = "none"

\* ------------------------------------------------------- URL construction
Placeholders(tmpl) == {tmpl[i].name : i \in {j \in 1..Len(tmpl) : tmpl[j].param}}
Unfilled(c, params) == Placeholders(chat_endpoint(c)) \ DOMAIN params

RECURSIVE Filled(_, _)
Filled(tmpl, params) ==
    IF tmpl = <<>> THEN <<>>
    ELSE (IF Head(tmpl).param THEN << params[Head(tmpl).name] >> ELSE Head(tmpl).toks)
         \o Filled(Tail(tmpl), params)

\* the base URL up to its last token that is not a slash, one slash, and the
\* filled-in endpoint without the slash it may start with
ExpectedUrl(c, params) ==
    LET b == base_url(c)
        ends == {i \in 0..Len(b) : \A j \in (i + 1)..Len(b) : b[j] = "/"}
        k == CHOOSE i \in ends : \A j \in ends : i <= j
        e == Filled(chat_endpoint(c), params)
    IN  SubSeq(b, 1, k) \o << "/" >>
        \o (IF e # <<>> /\ e[1] = "/" THEN Tail(e) ELSE e)

\* what each adapter class hands to _get_chat_url when it is constructed
GivenAtConstruction(c) == IF c = "gemini" THEN [model |-> model] ELSE EmptyDict

UrlBuiltAtConstruction == IsConstruct /\ BuildsUrl(name) /\ Truthy(api_key)

\* C20: URL construction with an unfilled placeholder raises ValueError naming
\* it, and fails the construction of an adapter that builds its URL there;
\* with every placeholder filled the URL is the base URL without trailing
\* slash, then the endpoint with a leading slash, holding the model name for
\* Gemini.
C20_ChatUrl ==
    /\ last.op = "_get_chat_url"
       => IF Unfilled(name, last.params) # {}
          THEN /\ Raised("ValueError")
               /\ Error.param \in Unfilled(name, last.params)
               /\ last.url = None
          ELSE /\ last.raised = None
               /\ last.url = Some(ExpectedUrl(name, last.params))
    /\ UrlBuiltAtConstruction
       => IF Unfilled(name, GivenAtConstruction(name)) # {}
          THEN /\ Raised("ValueError")
               /\ Error.param \in Unfilled(name, GivenAtConstruction(name))
               /\ phase = "failed"
               /\ _url = None
          ELSE /\ phase = "ready"
               /\ _url = Some(ExpectedUrl(name, GivenAtConstruction(name)))
               /\ name = "gemini" => \E i \in 1..Len(Val(_url)) : Val(_url)[i] = model

\* the endpoint "/v1/{custom_param}/chat" was asked for with other="value"
C20_Witness ==
    /\ last.op = "_get_chat_url"
    /\ name = "ParamProvider"
    /\ last.params = [other |-> "value"]
    /\ Raised("ValueError")
    /\ Error.param = "custom_param"

\* ------------------------------------------------ the role error's content
BadRole(msg) == Canonical(RawRole(msg)) \notin CanonicalRoles
RoleRejected == IsChat /\ \E i \in 1..Len(last.messages) : BadRole(last.messages[i])

\* C21 as stated: the error of a rejected role identifies the offending role
\* and the index of the message that carried it.
C21_AsStated ==
    RoleRejected
    => /\ Raised("ValueError")
       /\ "index" \in DOMAIN Error
       /\ Error["index"] = FirstWhere(last.messages, BadRole) - 1

\* C21 amended: the error of a rejected role is made of the trimmed,
\* lower-cased role of the first offending message alone; it is the same
\* error whatever the position of that message and whichever the adapter.
C21_RoleNamedOnly ==
    RoleRejected
    => /\ Raised("ValueError")
       /\ Error = [type |-> "ValueError", what |-> "Unsupported role",
                   role |-> Canonical(RawRole(
                              last.messages[FirstWhere(last.messages, BadRole)]))]

\* the role 'system' was rejected at the second position
C21_Witness ==
    /\ RoleRejected
    /\ Len(last.messages) = 2
    /\ FirstWhere(last.messages, BadRole) = 2
    /\ Raised("ValueError")
    /\ Error.role = R_system

\* --------------------------------------------- the assembled ChatResponse
\* the text the first choice, block list or candidate carries, "" when none
CarriedText ==
    IF HasItems THEN Concat(Fragments(name, JsonDecode(Resp.text).val)) ELSE ""

\* C22: every ChatResponse a chat returns has a string text ("" when the
\* first candidate carries none), the adapter's name and model, the status
\* code and latency of the transport response, and the decoded body as raw.
C22_ChatResponse ==
    (IsChat /\ last.returned # None)
    => /\ Returned.text = CarriedText
       /\ Returned.provider = name
       /\ Returned.model = model
       /\ Returned.status_code = Resp.status_code
       /\ Returned.latency_ms = Posted.latency_ms
       /\ Posted.latency_ms = (last.outcome.t1 - last.outcome.t0) * 1000
       /\ JEq(Returned.raw, JsonDecode(Resp.text).val)

\* a response whose first choice, block list or candidate holds no text was
\* returned with the text ""
C22_Witness ==
    /\ IsChat
    /\ last.returned # None
    /\ HasItems
    /\ Fragments(name, JsonDecode(Resp.text).val) = <<>>
    /\ Returned.text = ""
    /\ Returned.status_code = 200

\* ------------------------------------------------------ default max_tokens
MaxTokensField == VendorField(name, "max_tokens")
MaxTokensConfigured == MaxTokensField \in DOMAIN _config

\* C23: config(max_tokens=n) stores n; Anthropic's payload always has
\* max_tokens, the stored value when there is one and 1024 otherwise; the
\* payloads of OpenAI and Gemini have no max-tokens field when none is stored.
C23_MaxTokens ==
    /\ (IsConfig /\ last.raised = None /\ last.args.max_tokens # None)
       => MaxTokensConfigured /\ _config[MaxTokensField] = Val(last.args.max_tokens)
    /\ (IsConfig /\ last.args.max_tokens = None)
       => (MaxTokensConfigured <=> MaxTokensField \in DOMAIN last.before)
    /\ Sent
       => IF name = "anthropic"
          THEN /\ "max_tokens" \in DOMAIN Payload
               /\ Payload["max_tokens"] = IF MaxTokensConfigured
                                          THEN _config["max_tokens"]
                                          ELSE 1024
          ELSE IF name = "openai"
          THEN MaxTokensConfigured \/ "max_tokens" \notin DOMAIN Payload
          ELSE \/ MaxTokensConfigured
               \/ "generationConfig" \notin DOMAIN Payload
               \/ "maxOutputTokens" \notin DOMAIN Payload["generationConfig"]

\* Anthropic sent max_tokens 0, as configured, not the default
C23_Witness ==
    /\ Sent
    /\ name = "anthropic"
    /\ MaxTokensConfigured
    /\ _config["max_tokens"] = 0
    /\ Payload["max_tokens"] = 0

\* ------------------------------------------------- Gemini without candidates
GeminiAnswered == SucceededWithObject /\ name = "gemini"
CandidatesMissing == "candidates" \notin DOMAIN Body
CandidatesEmpty ==
    "candidates" \in DOMAIN Body /\ Body["candidates"].t = "list"
    /\ Body["candidates"].v = <<>>

\* C24: for Gemini a successful object response whose 'candidates' is an
\* empty list or is missing yields the text "" and no error; a
\* ProviderParseError comes only from a 'candidates' that is present and is
\* not a list.
C24_GeminiCandidates ==
    GeminiAnswered
    => /\ (CandidatesMissing \/ CandidatesEmpty) => EmptyText
       /\ Raised("ProviderParseError")
          => "candidates" \in DOMAIN Body /\ Body["candidates"].t # "list"

\* Gemini answered 200 with an object that has no 'candidates' at all
C24_Witness ==
    /\ GeminiAnswered
    /\ CandidatesMissing
    /\ EmptyText
    /\ last.posts = 1

\* --------------------------------------------- request id of a status error
ErrorResp == Posted.raised.response

\* the non-empty request ids the headers of the error response carry
HeaderIds ==
    {ErrorResp.headers[k] :
        k \in DOMAIN ErrorResp.headers \cap {"x-goog-request-id", "x-request-id", "request-id"}}
    \ {""}

\* the decoded body is an object with a string 'request_id'
BodyHasId ==
    /\ JsonDecode(ErrorResp.text).ok
    /\ HasStr(JsonDecode(ErrorResp.text).val, "request_id")
BodyId == JsonDecode(ErrorResp.text).val.v["request_id"]

\* the request id: the headers' one, else the body's one where the adapter
\* in FallsBack reads the body, else none
RequestIdFrom(FallsBack) ==
    /\ Raised("ProviderAPIError")
    /\ IF HeaderIds # {}
       THEN Error.request_id.t = "str" /\ Error.request_id.v \in HeaderIds
       ELSE IF BodyHasId /\ name \in FallsBack
       THEN JEq(Error.request_id, BodyId)
       ELSE ~JTruthy(Error.request_id)

\* C25 as stated: the request id of a ProviderAPIError is the headers' one
\* when they carry one and otherwise the one of the decoded body, for every
\* adapter.
C25_AsStated == StatusError => RequestIdFrom(Vendors)

\* C25 amended: the headers' request id is used whenever they carry one and
\* the body never replaces it; without one in the headers only Anthropic
\* takes a string 'request_id' of the decoded body, OpenAI and Gemini report
\* none.
C25_RequestIdPrecedence == StatusError => RequestIdFrom({"anthropic"})

\* Anthropic reported the headers' id although the body had one too
C25_Witness ==
    /\ StatusError
    /\ name = "anthropic"
    /\ BodyHasId
    /\ HeaderIds = {"rid-x"}
    /\ Error.request_id = JStr("rid-x")

\* ------------------------------------------------- the gateway's boundary
IsNormalize == last.op = "normalize"
BlankContent(msg) == msg.content = None \/ Val(msg.content) \in {"", " ", "  "}
Violates(msg) == BadRole(msg) \/ BlankContent(msg)
MessagesOnly(prompt, messages) ==
    prompt = None /\ messages # None /\ Val(messages) # <<>>

\* the validation error naming the first message that breaks the contract
NamesFirstViolation(messages) ==
    /\ Raised("ValueError")
    /\ "index" \in DOMAIN Error
    /\ Error["index"] = FirstWhere(messages, Violates) - 1

\* C26: the gateway hands the adapter only messages whose role is user or
\* model and whose content is non-empty after trimming; a list with a message
\* breaking either rule fails gateway chat with a validation error naming the
\* message index, before any adapter or network activity.
C26_GatewayBoundary ==
    /\ (IsNormalize /\ MessagesOnly(last.prompt, last.messages) /\ last.system = None)
       => IF \E i \in 1..Len(Val(last.messages)) : Violates(Val(last.messages)[i])
          THEN NamesFirstViolation(Val(last.messages))
          ELSE /\ last.raised = None
               /\ \A i \in 1..Len(Val(last.out)) :
                     /\ RawRole(Val(last.out)[i]) \in CanonicalRoles
                     /\ ~BlankContent(Val(last.out)[i])
    /\ (OnGateway /\ last.call.method = "chat"
           /\ MessagesOnly(last.call.prompt, last.call.messages))
       => IF \E i \in 1..Len(Val(last.call.messages)) : Violates(Val(last.call.messages)[i])
          THEN /\ NamesFirstViolation(Val(last.call.messages))
               /\ last.handed = <<>>
               /\ last.posts = 0
          ELSE /\ last.raised = None
               /\ Len(last.handed) = 1

\* ------------------------------------------------------- the course of a chat
RolesPass == IsChat /\ \A i \in 1..Len(last.messages) : ~BadRole(last.messages[i])

StepOrder ==
    << "BUILD_PAYLOAD", "SEND", "MAP_TRANSPORT_ERROR", "PARSE_JSON", "VALIDATE_SHAPE",
       "EXTRACT_FIELDS", "ASSEMBLE_RESPONSE" >>
StepNo(step) == CHOOSE i \in 1..Len(StepOrder) : StepOrder[i] = step
InOrder(steps) ==
    /\ \A i \in 1..Len(steps) : \E j \in 1..Len(StepOrder) : StepOrder[j] = steps[i]
    /\ \A i \in 1..(Len(steps) - 1) : StepNo(steps[i]) < StepNo(steps[i + 1])

AdapterErrors == {"ProviderHTTPError", "ProviderAPIError", "ProviderParseError"}
TransportErrors == {"HTTPTimeoutError", "HTTPNetworkError", "HTTPStatusError"}

ConstructionFailed ==
    /\ IsConstruct
    /\ phase = "failed"
    /\ Raised("MissingAPIKeyError") \/ Raised("ValueError")

\* C28: a construction that fails with MissingAPIKeyError or with an
\* unresolved endpoint parameter leaves no connection pool open: none was
\* created, or the one created was closed before the error was raised.
C28_NoPoolLeftOpen == ConstructionFailed => _http \in {"none", "closed"}

\* --------------------------------------------------- a rejected config call
ConfigRejected == IsConfig /\ last.raised # None

\* the fields of a payload that do not come from the stored options
OwnFields(v) ==
    CASE v = "openai" -> {"model", "messages"}
      [] v = "anthropic" -> {"model", "messages", "max_tokens", "system"}
      [] v = "gemini" -> {"contents", "systemInstruction"}

\* the payload holds no option beyond the stored ones
PayloadWithinConfig ==
    IF name = "gemini"
    THEN /\ DOMAIN Payload \subseteq OwnFields(name) \cup {"generationConfig"}
         /\ "generationConfig" \in DOMAIN Payload => Payload["generationConfig"] = _config
    ELSE \A f \in DOMAIN Payload \ OwnFields(name) :
            f \in DOMAIN _config /\ Payload[f] = _config[f]

\* C29: a config call rejected for a custom key outside the allow-list, or
\* for a custom that is no mapping, leaves the stored options exactly as they
\* were, and the payload of a chat holds stored options only: nothing passed
\* in the rejected call reaches a later payload.
C29_RejectedConfigNoEffect ==
    /\ ConfigRejected
       => /\ Error.type \in {"ValueError", "TypeError"}
          /\ _config = last.before
          /\ last.posts = 0
    /\ Sent => PayloadWithinConfig

\* config(temperature=1, custom={"bogus": 1}) was rejected on an adapter that
\* had temperature 2 stored, and 2 it keeps
C29_Witness ==
    /\ ConfigRejected
    /\ last.args.temperature = Some(1)
    /\ "temperature" \in DOMAIN _config
    /\ _config["temperature"] = 2

\* ------------------------------------------------------ what a chat leaves
\* C30: a chat, however it ends, leaves the stored options, the system
\* prompt, the URL and the headers as they were and the caller's message list
\* as it was passed; a chat that follows a chat with the same messages sends
\* the same request.
C30_ChatLeavesState ==
    [][ (last'.op = "chat")
        => /\ _config' = _config
           /\ _system_prompt' = _system_prompt
           /\ _url' = _url
           /\ _headers' = _headers
           /\ last'.messages_after = last'.messages
           /\ (last.op = "chat" /\ last.messages = last'.messages)
              => last'.sent = last.sent
      ]_vars

\* Anthropic sent the default max_tokens and did not store it
C30_Witness ==
    /\ Sent
    /\ name = "anthropic"
    /\ Payload["max_tokens"] = 1024
    /\ "max_tokens" \notin DOMAIN _config
    /\ last.messages_after = last.messages

TypeOK ==
    /\ phase \in {"new", "ready", "failed"}
    /\ _http \in {"none", "open", "closed"}

====
